---------------------------- MODULE Spec2Model ----------------------------
(***************************************************************************)
(* Model of the DropTruck voice agent's conversation engine                *)
(* (src/app/llm.py, src/core/prompt.py).  Texts are strings; the Python    *)
(* string methods and the regular expressions the extractors use are       *)
(* computed character by character.  The definitions avoid recursion, so   *)
(* that what depends on a text alone is evaluated once per text.           *)
(***************************************************************************)
EXTENDS Integers, Sequences, FiniteSets, TLC

(***************************************************************************)
(* Python values.  None is the string "<None>", which no text equals.      *)
(***************************************************************************)
None == "<None>"

\* Python truthiness of an Optional[str]: None and "" are falsy.
Truthy(v) == v # None /\ v # ""

\* s[i] (1-based) as a one-character string.
Char(s, i) == SubSeq(s, i, i)

\* s[i:] (1-based start).
From(s, i) == IF i > Len(s) THEN "" ELSE SubSeq(s, i, Len(s))

Min(a, b) == IF a < b THEN a ELSE b

\* The least element of a non-empty set of integers.
Least(S) == CHOOSE x \in S : \A y \in S : x <= y
\* The k-th smallest element of a set of integers.
Nth(S, k) == CHOOSE x \in S : Cardinality({y \in S : y < x}) = k - 1

\* The concatenation of a sequence of strings (by halves).
Concat(pieces) ==
    LET C[r \in (1..Len(pieces)) \X (1..Len(pieces))] ==
            IF r[1] = r[2] THEN pieces[r[1]]
            ELSE C[<<r[1], (r[1] + r[2]) \div 2>>] \o C[<<(r[1] + r[2]) \div 2 + 1, r[2]>>]
    IN  IF Len(pieces) = 0 THEN "" ELSE C[<<1, Len(pieces)>>]

LowerChars == <<"a","b","c","d","e","f","g","h","i","j","k","l","m",
                "n","o","p","q","r","s","t","u","v","w","x","y","z">>
UpperChars == <<"A","B","C","D","E","F","G","H","I","J","K","L","M",
                "N","O","P","Q","R","S","T","U","V","W","X","Y","Z">>
Lowers == {LowerChars[i] : i \in 1..26}
Uppers == {UpperChars[i] : i \in 1..26}
Letters == Lowers \cup Uppers
Digits == {"0","1","2","3","4","5","6","7","8","9"}
\* \s of the re module and the characters str.strip() / str.split() remove.
Whitespace == {" ", "\t", "\n", "\r", "\f"}
\* \w of the re module.
WordChars == Letters \cup Digits \cup {"_"}

LowerOf(c) == IF c \in Uppers THEN LowerChars[CHOOSE i \in 1..26 : UpperChars[i] = c] ELSE c
UpperOf(c) == IF c \in Lowers THEN UpperChars[CHOOSE i \in 1..26 : LowerChars[i] = c] ELSE c

\* str.lower()
lower(s) == Concat([i \in 1..Len(s) |-> LowerOf(Char(s, i))])

\* str.title(): a letter is upper-cased when the previous character is not a
\* letter and lower-cased otherwise.
title(s) ==
    Concat([i \in 1..Len(s) |->
              IF i = 1 \/ Char(s, i - 1) \notin Letters
              THEN UpperOf(Char(s, i)) ELSE LowerOf(Char(s, i))])

\* str.strip()
strip(s) ==
    LET kept == {i \in 1..Len(s) : Char(s, i) \notin Whitespace}
    IN  IF kept = {} THEN ""
        ELSE SubSeq(s, Least(kept), CHOOSE j \in kept : \A k \in kept : k <= j)

\* Python's `k in s` on strings.
Contains(s, k) ==
    \/ Len(k) = 0
    \/ \E i \in 1..(Len(s) - Len(k) + 1) : SubSeq(s, i, i + Len(k) - 1) = k

\* str.startswith
startswith(s, p) == Len(p) <= Len(s) /\ SubSeq(s, 1, Len(p)) = p

\* any(keyword in text for keyword in keywords), keywords a sequence.
ContainsAny(s, keywords) == \E i \in 1..Len(keywords) : Contains(s, keywords[i])

\* Number of consecutive characters of cls in s from pos.
Run(s, pos, cls) ==
    CHOOSE n \in 0..(Len(s) - pos + 1) :
        /\ \A k \in 0..(n - 1) : Char(s, pos + k) \in cls
        /\ pos + n > Len(s) \/ Char(s, pos + n) \notin cls

\* str.split(): the whitespace-separated words, in order.
split(s) ==
    LET starts == {i \in 1..Len(s) : Char(s, i) \notin Whitespace
                                     /\ (i = 1 \/ Char(s, i - 1) \in Whitespace)}
        word(i) == SubSeq(s, i, i + Run(s, i, {Char(s, k) : k \in 1..Len(s)} \ Whitespace) - 1)
    IN  [k \in 1..Cardinality(starts) |-> word(Nth(starts, k))] \o <<>>

\* ' '.join(words)
join(words) ==
    Concat([k \in 1..(2 * Len(words) - 1) |->
              IF k % 2 = 1 THEN words[(k + 1) \div 2] ELSE " "])

\* str.replace(old, new): the occurrences of old are replaced from the left,
\* an occurrence overlapping a replaced one being skipped.  For the arguments
\* of the source (" ", "-", " And "): occurrences of old overlap only at the
\* distance shift, and there only with their neighbours.
replace(s, old, new) ==
    LET m == Len(old)
        shifts == {d \in 1..(m - 1) : SubSeq(old, d + 1, m) = SubSeq(old, 1, m - d)}
        shift == IF shifts = {} THEN m ELSE Least(shifts)
        occurs(i) == i >= 1 /\ i + m - 1 <= Len(s) /\ SubSeq(s, i, i + m - 1) = old
        \* the occurrences chained before i at the distance shift
        chain(i) == CHOOSE r \in 0..Len(s) :
                        /\ \A k \in 1..r : occurs(i - k * shift)
                        /\ ~occurs(i - (r + 1) * shift)
        replaced(i) == occurs(i) /\ chain(i) % 2 = 0
        covered(i) == \E j \in (i - m + 1)..(i - 1) : replaced(j)
    IN  Concat([i \in 1..Len(s) |->
                  IF replaced(i) THEN new
                  ELSE IF covered(i) THEN ""
                  ELSE Char(s, i)])

(***************************************************************************)
(* re.search for the patterns of llm.py, with Python's priorities:         *)
(* leftmost start; alternatives in order; greedy repeats longest first,    *)
(* lazy repeats shortest first.  A pattern is a sequence of at most twelve *)
(* segments and the groups it captures; a segment is a choice between      *)
(* items (a literal, optionally with \s+ before or after, \b around it or  *)
(* $ after it) or a repeated character class.                              *)
(***************************************************************************)
Item(pre, s, post, eos, wb) == [pre |-> pre, s |-> s, post |-> post, eos |-> eos, wb |-> wb]
L(s)    == Item(FALSE, s, FALSE, FALSE, FALSE)     \* s
WsL(s)  == Item(TRUE, s, FALSE, FALSE, FALSE)      \* \s+s
LWs(s)  == Item(FALSE, s, TRUE, FALSE, FALSE)      \* s\s+
WbL(s)  == Item(FALSE, s, FALSE, FALSE, TRUE)      \* \bs\b
EosItem == Item(FALSE, "", FALSE, TRUE, FALSE)     \* $

Alt(items)       == [rep |-> FALSE, alts |-> items, cls |-> {}, lo |-> 0, hi |-> 0, lazy |-> FALSE]
Rep(cls, lo, hi) == [rep |-> TRUE, alts |-> <<>>, cls |-> cls, lo |-> lo, hi |-> hi, lazy |-> FALSE]
                                                   \* [cls]{lo,hi}; hi = -1: no maximum
Lazy(cls)        == [rep |-> TRUE, alts |-> <<>>, cls |-> cls, lo |-> 1, hi |-> -1, lazy |-> TRUE]
                                                   \* [cls]+?
Lit(s)     == Alt(<<L(s)>>)                              \* literal text
Lits(strs) == Alt([i \in 1..Len(strs) |-> L(strs[i])])   \* (?:a|b|...)
Opt(item)  == Alt(<<item, L("")>>)                       \* (?:item)?
Eos        == Alt(<<EosItem>>)                           \* $
Wb         == Alt(<<WbL("")>>)                           \* \b
Ws1        == Rep(Whitespace, 1, -1)                     \* \s+
Ws0        == Rep(Whitespace, 0, -1)                     \* \s*
\* The five one-character alternatives of \s inside a choice.
WsItems    == <<L(" "), L("\t"), L("\n"), L("\r"), L("\f")>>

Pattern(segs, caps) == [segs |-> segs, caps |-> caps]

NoMatch == [ok |-> FALSE, pos |-> <<>>, caps |-> <<>>]

IsWordAt(s, i) == i >= 1 /\ i <= Len(s) /\ Char(s, i) \in WordChars
\* \b at pos
Boundary(s, pos) == IsWordAt(s, pos - 1) # IsWordAt(s, pos)
\* $ at pos: the end, or before a final newline
AtEnd(s, pos) == pos = Len(s) + 1 \/ (pos = Len(s) /\ Char(s, pos) = "\n")

\* The ways item j of a choice matches at pos: <<j, -a, -b, end>> with a and b
\* the lengths of the \s+ before and after the literal; a way with the
\* smaller triple is tried first.
ItemEnds(it, j, s, pos) ==
    LET len == Len(it.s)
        fits(a) == /\ pos + a + len - 1 <= Len(s)
                   /\ SubSeq(s, pos + a, pos + a + len - 1) = it.s
                   /\ it.wb => Boundary(s, pos + a) /\ Boundary(s, pos + a + len)
                   /\ it.eos => AtEnd(s, pos + a + len)
        before == IF it.pre THEN 1..Run(s, pos, Whitespace) ELSE {0}
        after(a) == IF ~fits(a) THEN {}
                    ELSE IF it.post THEN 1..Run(s, pos + a + len, Whitespace)
                    ELSE {0}
    IN  UNION {{<<j, 0 - a, 0 - b, pos + a + len + b>> : b \in after(a)} : a \in before}

\* The ways a segment matches at pos, as <<k1, k2, k3, end>>.
Ends(seg, s, pos) ==
    IF seg.rep
    THEN LET run == Run(s, pos, seg.cls)
             most == IF seg.hi = -1 THEN run ELSE Min(run, seg.hi)
         IN  {<<1, IF seg.lazy THEN n ELSE 0 - n, 0, pos + n>> : n \in seg.lo..most}
    ELSE UNION {ItemEnds(seg.alts[j], j, s, pos) : j \in 1..Len(seg.alts)}

\* c is tried before d
Before(c, d) ==
    \/ c[1] < d[1]
    \/ c[1] = d[1] /\ c[2] < d[2]
    \/ c[1] = d[1] /\ c[2] = d[2] /\ c[3] < d[3]

\* re.search(pattern, s): [ok, pos, caps], pos[1] the start of the match and
\* pos[i + 1] the end of segment i.  reach[i + 1] are the positions segments
\* 1..i can reach from some start, back[i + 1] those of them from which the
\* rest matches; the match starts at the least start and each segment takes
\* its first way that the rest can complete.
search(pattern, s) ==
    LET n == Len(pattern.segs)
        Step(i, P) == UNION {{c[4] : c \in Ends(pattern.segs[i], s, p)} : p \in P}
        Back(i, P, Q) == {p \in P : \E c \in Ends(pattern.segs[i], s, p) : c[4] \in Q}
        First(cs) == (CHOOSE c \in cs : \A d \in cs : c = d \/ Before(c, d))[4]
        Pick(i, p, Q) == First({c \in Ends(pattern.segs[i], s, p) : c[4] \in Q})
        R[i \in 0..n] ==
            IF i = 0 THEN <<1..(Len(s) + 1)>>
            ELSE LET prev == R[i - 1] IN Append(prev, Step(i, prev[i]))
        Backward(reach) ==
            LET B[i \in 0..n] ==
                    IF i = n THEN <<reach[n + 1]>>
                    ELSE LET next == B[i + 1]
                         IN  <<Back(i + 1, reach[i + 1], next[1])>> \o next
            IN  B[0]
        Matched(back) ==
            LET P[i \in 0..n] ==
                    IF i = 0 THEN <<Least(back[1])>>
                    ELSE LET prev == P[i - 1]
                         IN  Append(prev, Pick(i, prev[i], back[i + 1]))
            IN  IF back[1] = {} THEN NoMatch
                ELSE [ok |-> TRUE, pos |-> P[n], caps |-> pattern.caps]
    IN  Matched(Backward(R[n]))

\* match.group(g): group g spans the segments caps[g][1]..caps[g][2].
group(s, m, g) == SubSeq(s, m.pos[m.caps[g][1]], m.pos[m.caps[g][2] + 1] - 1)

(***************************************************************************)
(* fuzz.ratio of fuzzywuzzy (pure-Python backend): difflib's               *)
(* SequenceMatcher.ratio(), 2*M/T, times 100 and rounded.                  *)
(***************************************************************************)
\* Whether a and b share a block of length k.
HasBlock(a, b, k) ==
    \E i \in 1..(Len(a) - k + 1) : \E j \in 1..(Len(b) - k + 1) :
        SubSeq(a, i, i + k - 1) = SubSeq(b, j, j + k - 1)

\* find_longest_match: <<i, j, k>>, the longest common block, the one earliest
\* in a and, among those, earliest in b; k = 0 when there is none.
Longest(a, b) ==
    LET at(k, i) == {j \in 1..(Len(b) - k + 1) :
                        SubSeq(a, i, i + k - 1) = SubSeq(b, j, j + k - 1)}
        Place(k, i) == <<i, Least(at(k, i)), k>>
        Block(k) ==
            IF k = 0 THEN <<1, 1, 0>>
            ELSE Place(k, CHOOSE n \in 1..(Len(a) - k + 1) :
                              at(k, n) # {} /\ \A h \in 1..(n - 1) : at(k, h) = {})
        Shorter(len) ==
            Block(CHOOSE n \in 0..len :
                      /\ n = 0 \/ HasBlock(a, b, n)
                      /\ n = len \/ ~HasBlock(a, b, n + 1))
    IN  Shorter(Min(Len(a), Len(b)))

\* Total size of the matching blocks (get_matching_blocks): the longest block
\* of a[q[1]..q[2]] and b[q[3]..q[4]], then the same to its left and to its
\* right.
Matches(a, b) ==
    LET Ranges == (0..(Len(a) + 1)) \X (0..(Len(a) + 1)) \X (0..(Len(b) + 1)) \X (0..(Len(b) + 1))
        Sum(q, m, M) ==
            IF m[3] = 0 THEN 0
            ELSE M[<<q[1], q[1] + m[1] - 2, q[3], q[3] + m[2] - 2>>] + m[3]
                 + M[<<q[1] + m[1] + m[3] - 1, q[2], q[3] + m[2] + m[3] - 1, q[4]>>]
        M[q \in Ranges] ==
            Sum(q, Longest(SubSeq(a, q[1], q[2]), SubSeq(b, q[3], q[4])), M)
    IN  M[<<1, Len(a), 1, Len(b)>>]

\* int(round(num / den)) with Python's round-half-to-even.
RoundDiv(num, den) ==
    LET q == num \div den
        r == num % den
    IN  IF 2 * r < den THEN q
        ELSE IF 2 * r > den THEN q + 1
        ELSE IF q % 2 = 0 THEN q ELSE q + 1

ratio(s1, s2) ==
    IF s1 = s2 THEN 100
    ELSE IF Len(s1) = 0 \/ Len(s2) = 0 THEN 0
    ELSE RoundDiv(200 * Matches(s1, s2), Len(s1) + Len(s2))

(***************************************************************************)
(* BookingData (src/core/prompt.py)                                        *)
(***************************************************************************)
BookingData ==
    [customer_name |-> None, contact |-> None, lead_source |-> None,
     pickup_location |-> None, drop_location |-> None, vehicle_type |-> None,
     body_type |-> None, goods_type |-> None, trip_date |-> None,
     confirmation_status |-> "pending"]

\* all([...]) over a list of values
all(values) == \A i \in 1..Len(values) : Truthy(values[i])

\* is_complete with customer_name among the required fields.
IsCompleteWithName(bd) ==
    all(<<bd.customer_name, bd.pickup_location, bd.drop_location, bd.vehicle_type,
          bd.body_type, bd.goods_type, bd.trip_date>>)

is_complete(bd) ==
    all(<<bd.pickup_location, bd.drop_location, bd.vehicle_type,
          bd.body_type, bd.goods_type, bd.trip_date>>)

is_booking_complete(bd) == is_complete(bd)

(***************************************************************************)
(* Dictionaries keep insertion order: a dict is a sequence of <<key,       *)
(* value>> pairs.  DictUpdate is the dict after the assignments            *)
(* d[key] = value of a sequence of pairs: a key keeps the position of its  *)
(* first assignment and takes the value of its last.                       *)
(***************************************************************************)
DictUpdate(d, assigns) ==
    LET every == d \o assigns
        firsts == {k \in 1..Len(every) : \A j \in 1..(k - 1) : every[j][1] # every[k][1]}
        last(key) == CHOOSE k \in 1..Len(every) :
                         /\ every[k][1] = key
                         /\ \A j \in (k + 1)..Len(every) : every[j][1] # key
    IN  [r \in 1..Cardinality(firsts) |->
            LET key == every[Nth(firsts, r)][1]
            IN  <<key, every[last(key)][2]>>]

\* The index of the first TRUE of a sequence of booleans, or 0.
FirstTrue(flags) ==
    LET fs == flags \o <<>>
    IN  IF \E i \in 1..Len(fs) : fs[i]
        THEN CHOOSE i \in 1..Len(fs) : fs[i] /\ \A j \in 1..(i - 1) : ~fs[j]
        ELSE 0

\* The first element of a sequence of values that is not None, or None: what
\* a loop with a break at its first success stores.
FirstValue(values) ==
    LET Value(vs, i) == IF i = 0 THEN None ELSE vs[i]
        Of(vs) == Value(vs, FirstTrue([k \in 1..Len(vs) |-> vs[k] # None]))
    IN  Of(values \o <<>>)

(***************************************************************************)
(* The extractors of LLMAgent._extract_booking_info.  Each *_scan reads    *)
(* the text alone; the guards on the record are in the Extract* operators. *)
(***************************************************************************)
AlphaSpace == Letters \cup Whitespace
AlnumSpace == Letters \cup Digits \cup Whitespace

\* (?:\s+and|\s+my|\.|,|$)
NameEnd == Alt(<<WsL("and"), WsL("my"), L("."), L(","), EosItem>>)
name_patterns ==
    <<Pattern(<<Lits(<<"my name is", "i am", "this is", "name is", "i'm">>), Ws1,
                Lazy(AlphaSpace), NameEnd>>, << <<3, 3>> >>),
      Pattern(<<Lit("name"), Ws1, Lazy(AlphaSpace), NameEnd>>, << <<3, 3>> >>)>>

stop_words == {"is", "and", "my", "the", "from", "to", "for", "i", "said", "please", "you", "your"}
name_cities == {"chennai", "bangalore", "mumbai", "delhi", "pune", "hyderabad"}

\* What pattern i of the loop over name_patterns gives: the cleaned name, or
\* None when the pattern does not match or the name is rejected.
NameOf(text_lower, i) ==
    LET Checked(name_parts, clean_name) ==
            IF name_parts # <<>> /\ Len(clean_name) >= 2
               /\ lower(clean_name) \notin name_cities
            THEN clean_name
            ELSE None
        Cleaned(name_parts) == Checked(name_parts, join(name_parts))
        Parts(name) == SelectSeq(split(name), LAMBDA word : lower(word) \notin stop_words)
        Of(match) ==
            IF match.ok THEN Cleaned(Parts(title(strip(group(text_lower, match, 1)))))
            ELSE None
    IN  Of(search(name_patterns[i], text_lower))

\* The name the loop stores (the first pattern that gives one), or None.
name_scan(text_lower) ==
    FirstValue([k \in 1..Len(name_patterns) |-> NameOf(text_lower, k)])

\* words_to_digits: spoken digits to a numeral string.
word_to_num(w) ==
    CASE w = "zero" -> "0" [] w = "one" -> "1" [] w = "two" -> "2"
      [] w = "three" -> "3" [] w = "four" -> "4" [] w = "five" -> "5"
      [] w = "six" -> "6" [] w = "seven" -> "7" [] w = "eight" -> "8"
      [] w = "nine" -> "9" [] w = "double" -> "" [] w = "triple" -> ""
NumWords == {"zero", "one", "two", "three", "four", "five", "six", "seven",
             "eight", "nine", "double", "triple"}

\* The while loop over the words: a "double" or "triple" followed by a number
\* word repeats that word's digit and skips it; a word the loop skips this way
\* is one preceded by an odd run of "double"/"triple".
words_to_digits(text_str) ==
    LET Of(words) ==
            LET n == Len(words)
                times(i) == IF words[i] = "double" THEN 2
                            ELSE IF words[i] = "triple" THEN 3 ELSE 1
                run(i) == CHOOSE r \in 0..(i - 1) :
                              /\ \A k \in 1..r : times(i - k) > 1
                              /\ r = i - 1 \/ times(i - r - 1) = 1
                digit(i) ==
                    IF words[i] \notin NumWords \/ run(i) % 2 = 1 THEN ""
                    ELSE IF times(i) > 1 /\ i + 1 <= n /\ words[i + 1] \in NumWords
                    THEN Concat([k \in 1..times(i) |-> word_to_num(words[i + 1])])
                    ELSE word_to_num(words[i])
            IN  Concat([i \in 1..n |-> digit(i)])
    IN  Of(split(lower(text_str)))

Mobile == {"6", "7", "8", "9"}
Sep == Whitespace \cup {"-"}
phone_patterns ==
    <<Pattern(<<Wb, Rep(Mobile, 1, 1), Rep(Digits, 9, 9), Wb>>, << <<2, 3>> >>),
      Pattern(<<Wb, Rep(Mobile, 1, 1), Rep(Digits, 1, 1), Rep(Sep, 0, 1),
                Rep(Digits, 3, 3), Rep(Sep, 0, 1), Rep(Digits, 5, 5), Wb>>, << <<2, 7>> >>),
      Pattern(<<Lits(<<"number", "mobile", "phone", "contact">>),
                Rep(Whitespace \cup {":"}, 1, -1),
                Rep(Mobile, 1, 1), Rep(Digits, 9, 9)>>, << <<3, 4>> >>)>>

\* What pattern i of the loop over phone_patterns gives, or None.
PhoneOf(text, i) ==
    LET Ten(phone) == IF Len(phone) = 10 THEN phone ELSE None
        Of(match) ==
            IF match.ok THEN Ten(replace(replace(group(text, match, 1), " ", ""), "-", ""))
            ELSE None
    IN  Of(search(phone_patterns[i], text))

\* The contact the phone extractor stores, or None (original-case text).
phone_scan(text) ==
    LET Of(spoken_number, other) ==
            IF Len(spoken_number) = 10 /\ Char(spoken_number, 1) \in Mobile
            THEN spoken_number
            ELSE other
    IN  Of(words_to_digits(text),
           FirstValue([k \in 1..Len(phone_patterns) |-> PhoneOf(text, k)]))

from_to_pattern ==
    Pattern(<<Lits(<<"from", "pickup", "trip from">>), Ws1, Lazy(AlphaSpace),
              Ws1, Lits(<<"to", "drop">>), Ws1, Lazy(AlphaSpace),
              Alt(WsItems \o <<L(","), EosItem, L("."), WbL("and")>>)>>,
            << <<3, 3>>, <<7, 7>> >>)

\* Form (a): [ok, pickup, drop], the captures stripped and title-cased.
from_to_scan(text_lower) ==
    LET Of(match) ==
            IF match.ok
            THEN [ok |-> TRUE,
                  pickup |-> title(strip(group(text_lower, match, 1))),
                  drop |-> title(strip(group(text_lower, match, 2)))]
            ELSE [ok |-> FALSE, pickup |-> "", drop |-> ""]
    IN  Of(search(from_to_pattern, text_lower))

confirmation_pattern ==
    Pattern(<<Lit("pickup"), Ws1, Opt(LWs("in")), Lazy(AlphaSpace),
              Lit(","), Ws0, Lit("drop"), Ws1, Opt(LWs("in")), Lazy(AlphaSpace),
              Alt(<<L(","), L("truck"), WsL("truck"), L("."), EosItem>>)>>,
            << <<4, 4>>, <<10, 10>> >>)

\* for prefix in ['in ', 'from ', 'at ']: strip the prefix and title-case again
StripPrefix(v, prefix) ==
    IF startswith(lower(v), prefix) THEN title(From(v, Len(prefix) + 1)) ELSE v
CleanPrefixes(v) == StripPrefix(StripPrefix(StripPrefix(v, "in "), "from "), "at ")

\* Form (b), the confirmation echo: [ok, pickup, drop].
confirmation_scan(text_lower) ==
    LET Of(conf_match) ==
            IF conf_match.ok
            THEN [ok |-> TRUE,
                  pickup |-> CleanPrefixes(title(strip(group(text_lower, conf_match, 1)))),
                  drop |-> CleanPrefixes(title(strip(group(text_lower, conf_match, 2))))]
            ELSE [ok |-> FALSE, pickup |-> "", drop |-> ""]
    IN  Of(search(confirmation_pattern, text_lower))

\* Default body types, and the rows of a catalog query added to a table.
default_body_types == << <<"open", "Open">>, <<"container", "Container">> >>

\* for body in db_bodies: body_types[name.lower()] = name
AddBodies(table, names) ==
    DictUpdate(table, [k \in 1..Len(names) |-> <<lower(names[k]), names[k]>>])

\* for keyword, name in table.items(): if keyword in text_lower: ... break
FirstKeyword(table, text_lower) ==
    LET i == FirstTrue([k \in 1..Len(table) |-> Contains(text_lower, table[k][1])])
    IN  IF i = 0 THEN None ELSE table[i][2]

\* The body type the utterance names under the rows db_bodies, or None.
body_scan(text_lower, db_bodies) ==
    FirstKeyword(AddBodies(default_body_types, db_bodies), text_lower)

default_vehicle_keywords ==
    << <<"tata ace", "Tata Ace">>, <<"tata ac", "Tata Ace">>, <<"ace", "Tata Ace">>,
       <<"dost", "Dost">>, <<"bada dost", "Bada Dost">>, <<"bolero", "Bolero">>,
       <<"bolero pickup", "Bolero">>, <<"407", "407">>, <<"eicher", "Eicher">>,
       <<"ashok leyland", "Ashok Leyland">>,
       <<"12 feet", "12 Feet">>, <<"14 feet", "14 Feet">>, <<"17 feet", "17 Feet">>,
       <<"19 feet", "19 Feet">>, <<"20 feet", "20 Feet">>, <<"22 feet", "22 Feet">>,
       <<"24 feet", "24 Feet">>, <<"32 feet", "32 Feet Multi-Axle">>,
       <<"32 feet multi-axle", "32 Feet Multi-Axle">>,
       <<"32 feet multi axle", "32 Feet Multi-Axle">>,
       <<"trailer", "Trailer">>, <<"20 feet trailer", "20 Feet Trailer">>,
       <<"24 feet trailer", "24 Feet Trailer">>, <<"40 feet trailer", "40 Feet Trailer">>,
       <<"low-bed", "Low-Bed Trailer">>, <<"low bed", "Low-Bed Trailer">>,
       <<"semi-bed", "Semi-Bed Trailer">>, <<"semi bed", "Semi-Bed Trailer">>,
       <<"high-bed", "High-Bed Trailer">>, <<"high bed", "High-Bed Trailer">>,
       <<"6-wheel", "6-Wheel Truck">>, <<"6 wheel", "6-Wheel Truck">>,
       <<"10-wheel", "10-Wheel Truck">>, <<"10 wheel", "10-Wheel Truck">>,
       <<"12-wheel", "12-Wheel Truck">>, <<"12 wheel", "12-Wheel Truck">>,
       <<"14-wheel", "14-Wheel Truck">>, <<"14 wheel", "14-Wheel Truck">>,
       <<"16-wheel", "16-Wheel Truck">>, <<"16 wheel", "16-Wheel Truck">>,
       <<"car-carrier", "Car-Carrier">>, <<"car carrier", "Car-Carrier">>,
       <<"part-load", "Part-Load">>, <<"part load", "Part-Load">> >>

\* AddTrucks without the alias that has spaces for hyphens.
AddTrucksLowerOnly(table, names) ==
    DictUpdate(table, [k \in 1..Len(names) |-> <<lower(names[k]), names[k]>>])

\* for truck in db_trucks: two assignments per name
AddTrucks(table, names) ==
    DictUpdate(table,
               [k \in 1..(2 * Len(names)) |->
                  LET name == names[(k + 1) \div 2]
                  IN  IF k % 2 = 1 THEN <<lower(name), name>>
                      ELSE <<replace(lower(name), "-", " "), name>>])

truck_type_pattern ==
    Pattern(<<Lit("truck"), Ws1, Opt(LWs("type")), Lazy(AlnumSpace),
              Alt(<<L(","), L("body"), WsL("open"), WsL("container"), L("."), EosItem>>)>>,
            << <<4, 4>> >>)

\* "truck [type] X": [ok, truck_mentioned]
truck_scan(text_lower) ==
    LET Of(truck_match) ==
            IF truck_match.ok
            THEN [ok |-> TRUE, truck_mentioned |-> strip(group(text_lower, truck_match, 1))]
            ELSE [ok |-> FALSE, truck_mentioned |-> ""]
    IN  Of(search(truck_type_pattern, text_lower))

\* The loop over vehicle_keywords of the explicit-phrase stage: the label of
\* the first keyword with the highest fuzz.ratio, if that is at least 65.
BestByRatio(keywords, truck_mentioned) ==
    LET Label(i) == IF i = 0 THEN None ELSE keywords[i][2]
        Best(score) ==
            Label(FirstTrue([k \in 1..Len(keywords) |->
                               score[k] >= 65 /\ \A j \in 1..Len(keywords) : score[j] <= score[k]]))
    IN  Best([k \in 1..Len(keywords) |->
                ratio(lower(truck_mentioned), keywords[k][1])] \o <<>>)

\* The vehicle the explicit-phrase stage stores for the text, or None.
explicit_scan(text_lower, keywords) ==
    LET Of(m) == IF m.ok THEN BestByRatio(keywords, m.truck_mentioned) ELSE None
    IN  Of(truck_scan(text_lower))

feet_pattern ==
    Pattern(<<Rep(Digits, 1, -1), Ws0, Lits(<<"feet", "ft", "foot">>)>>, << <<1, 1>> >>)

\* Feet fallback: "<digits> Feet", else "Truck" when the word appears, else None.
feet_scan(text_lower) ==
    LET Of(feet_match) ==
            IF feet_match.ok THEN group(text_lower, feet_match, 1) \o " Feet"
            ELSE IF Contains(text_lower, "truck") THEN "Truck"
            ELSE None
    IN  Of(search(feet_pattern, text_lower))

\* (?:\s+from|\s+to|,|\.|$)
MaterialEnd == Alt(<<WsL("from"), WsL("to"), L(","), L("."), EosItem>>)
MaterialVerb(word) ==
    Pattern(<<Lit(word), Ws1, Lazy(AlnumSpace), MaterialEnd>>, << <<3, 3>> >>)
MaterialNoun(word) ==
    Pattern(<<Lit(word), Ws1, Opt(LWs("is")), Lazy(AlnumSpace), MaterialEnd>>, << <<4, 4>> >>)
material_patterns ==
    <<MaterialVerb("carrying"), MaterialVerb("transporting"), MaterialVerb("moving"),
      MaterialNoun("material"), MaterialNoun("goods"), MaterialNoun("load")>>
conf_material_pattern ==
    Pattern(<<Lit("material"), Ws1, Lazy(AlnumSpace),
              Alt(<<L(","), L("date"), L("."), EosItem>>)>>, << <<3, 3>> >>)

\* A capture of more than two characters, or None.
Material(material) == IF Len(material) > 2 THEN material ELSE None

\* What pattern i of the loop over material_patterns gives, or None.
MaterialOf(text_lower, i) ==
    LET Of(match) ==
            IF match.ok
            THEN Material(replace(title(strip(group(text_lower, match, 1))), " And ", " and "))
            ELSE None
    IN  Of(search(material_patterns[i], text_lower))

\* The goods type the two blocks store into an empty field, or None.
material_scan(text_lower) ==
    LET Conf(conf_match) ==
            IF conf_match.ok THEN Material(title(strip(group(text_lower, conf_match, 1))))
            ELSE None
        Of(material, other) == IF material # None THEN material ELSE other
    IN  Of(FirstValue([k \in 1..Len(material_patterns) |-> MaterialOf(text_lower, k)]),
           Conf(search(conf_material_pattern, text_lower)))

(***************************************************************************)
(* Dates: datetime.now(), timedelta(days=k) and strftime("%Y-%m-%d").      *)
(***************************************************************************)
IsLeap(y) == (y % 4 = 0 /\ y % 100 # 0) \/ y % 400 = 0
DaysIn(y, m) ==
    IF m = 2 THEN (IF IsLeap(y) THEN 29 ELSE 28)
    ELSE IF m \in {4, 6, 9, 11} THEN 30 ELSE 31

NextDay(date) ==
    IF date.d < DaysIn(date.y, date.m) THEN [date EXCEPT !.d = date.d + 1]
    ELSE IF date.m < 12 THEN [y |-> date.y, m |-> date.m + 1, d |-> 1]
    ELSE [y |-> date.y + 1, m |-> 1, d |-> 1]

\* date + timedelta(days=k), for the k of the source (at most 2).
AddDays(date, k) ==
    IF k = 0 THEN date ELSE IF k = 1 THEN NextDay(date) ELSE NextDay(NextDay(date))

DigitChars == <<"0", "1", "2", "3", "4", "5", "6", "7", "8", "9">>
Pad2(n) == DigitChars[((n \div 10) % 10) + 1] \o DigitChars[(n % 10) + 1]
strftime(date) == Pad2(date.y \div 100) \o Pad2(date.y) \o "-" \o Pad2(date.m) \o "-" \o Pad2(date.d)

\* The if/elif chain on the date words: the days added to now, -1 when the
\* text has none of the words.
date_scan(text_lower) ==
    IF Contains(text_lower, "today") \/ Contains(text_lower, "now") THEN 0
    ELSE IF Contains(text_lower, "tomorrow") THEN 1
    ELSE IF Contains(text_lower, "day after tomorrow") \/ Contains(text_lower, "overmorrow")
    THEN 2
    ELSE -1

(***************************************************************************)
(* LLMAgent._extract_from_confirmation and _detect_confirmation: what they *)
(* read from the text.                                                     *)
(***************************************************************************)
conf_name_pattern ==
    Pattern(<<Lit("name"), Ws1, Lazy(AlphaSpace), Alt(<<L(","), WsL("mobile")>>)>>,
            << <<3, 3>> >>)
conf_cities == {"chennai", "bangalore", "mumbai", "delhi", "pune", "hyderabad", "goa", "kolkata"}

\* The name of a confirmation message, or None.
conf_name_scan(text_lower) ==
    LET Name(name) == IF lower(name) \notin conf_cities THEN name ELSE None
        Of(name_match) ==
            IF name_match.ok THEN Name(title(strip(group(text_lower, name_match, 1))))
            ELSE None
    IN  Of(search(conf_name_pattern, text_lower))

conf_phone_patterns ==
    <<Pattern(<<Lit("mobile"), Ws1, Rep(Mobile, 1, 1), Rep(Digits, 9, 9)>>, << <<3, 4>> >>),
      Pattern(<<Lit("mobile"), Ws1, Lit("("), Rep(Digits, 3, 3), Lit(")"), Ws0,
                Rep(Digits, 3, 3), Lit("-"), Rep(Digits, 4, 4)>>,
              << <<4, 4>>, <<7, 7>>, <<9, 9>> >>),
      Pattern(<<Lit("number"), Ws1, Rep(Mobile, 1, 1), Rep(Digits, 9, 9)>>, << <<3, 4>> >>)>>

\* What pattern i of the loop over the confirmation phone patterns gives.
ConfPhoneOf(text_lower, i) ==
    LET Ten(phone) == IF Len(phone) = 10 THEN phone ELSE None
        Of(match) ==
            IF ~match.ok THEN None
            ELSE IF Len(match.caps) = 1 THEN Ten(group(text_lower, match, 1))
            ELSE Ten(group(text_lower, match, 1) \o group(text_lower, match, 2)
                     \o group(text_lower, match, 3))
    IN  Of(search(conf_phone_patterns[i], text_lower))

\* The phone of a confirmation message, or None.
conf_phone_scan(text_lower) ==
    FirstValue([k \in 1..Len(conf_phone_patterns) |-> ConfPhoneOf(text_lower, k)])

confirmation_keywords ==
    <<"yes", "yeah", "yep", "ok", "okay", "correct", "right", "sure", "fine", "perfect",
      "that's right", "confirmed", "done", "absolutely", "exactly">>
rejection_keywords == <<"no", "not interested", "cancel", "don't want", "not now">>

check_booking_confirmed_marker(response_text) == Contains(response_text, "BOOKING_CONFIRMED")

\* is_call_complete's closing_phrases, and its two tests of the lower-cased
\* message.
closing_phrases ==
    <<"have a great day", "have a good day", "thank you for your time", "goodbye", "bye",
      "our sales person will contact you soon", "you can contact droptruck anytime">>
closes_call(last_message) ==
    IF Contains(last_message, "booking_confirmed")
    THEN TRUE
    ELSE ContainsAny(last_message, closing_phrases)

\* Everything the agent reads from a text alone.
ScanOf(text) ==
    LET Of(text_lower) ==
            [blank |-> strip(text) = "",
             name |-> name_scan(text_lower),
             phone |-> phone_scan(text),
             from_to |-> from_to_scan(text_lower),
             echo |-> confirmation_scan(text_lower),
             feet |-> feet_scan(text_lower),
             material |-> material_scan(text_lower),
             days |-> date_scan(text_lower),
             conf_name |-> conf_name_scan(text_lower),
             conf_phone |-> conf_phone_scan(text_lower),
             confirms |-> ContainsAny(text_lower, confirmation_keywords),
             rejects |-> ContainsAny(text_lower, rejection_keywords),
             marker |-> check_booking_confirmed_marker(text),
             closes |-> closes_call(text_lower)]
    IN  Of(lower(text))

(***************************************************************************)
(* The inputs: customer utterances, LLM replies, catalog contents and      *)
(* clock readings.                                                         *)
(***************************************************************************)
MaxTurns == 1      \* customer turns sent to the LLM in one conversation

UserTexts ==
    {"", "   ",
     "My name is Ravi Kumar, mobile 9066542031, I need a truck",
     "i need a 20 feet closed truck tomorrow carrying cement",
     "yes that's correct",
     "cancel it",
     "yes but not now",
     "from chennai to bangalore",
     "from madurai to goa",
     "truck type tata ace"}

ResponseTexts ==
    {"Name Ravi Kumar, mobile 9066542031, pickup Chennai, drop Bangalore, truck Tata Ace, body Open, material Cement, date tomorrow. Correct?",
     "Your booking is confirmed. BOOKING_CONFIRMED",
     "May I know your name please?",
     "Okay, which truck type do you need?",
     "Pickup in Chennai Central, drop in Goa, truck 32 feet multi-axle.",
     "Pickup in UP, drop in Goa.",
     "Name Arun, mobile (987) 654-3210, pickup Delhi, drop Pune, truck 14 feet, body container, material steel, date today. Correct?"}

\* The utterance and the replies of the long conversations.
LongUserTexts == {"from chennai to bangalore"}
LongResponseTexts == {"Pickup in UP, drop in Goa.", "Thank you, Goodbye!"}

\* Utterances for the extractors one at a time.
ExtractTexts ==
    {"deliver it day after tomorrow",
     "send it overmorrow",
     "call me on 98765 43210",
     "my number is 987-654-3210",
     "i want a tata ace",
     "i need a 20 feet closed truck tomorrow carrying cement"}

Texts == UserTexts \cup ResponseTexts \cup LongResponseTexts \cup ExtractTexts

\* The rows of the catalog's truck_types and body_types tables.
TruckRows == <<"Mini-Truck", "EICHER">>
BodyRows == <<"Closed", "Semi-Closed", "OPEN">>

\* The catalog as the constructor finds it: DBClient() raising (ok is FALSE),
\* or each list query failing or giving the rows of its table.
Catalogs ==
    {[ok |-> FALSE, trucks_ok |-> FALSE, bodies_ok |-> FALSE,
      trucks |-> TruckRows, bodies |-> BodyRows]}
    \cup {[ok |-> TRUE, trucks_ok |-> t, bodies_ok |-> b,
           trucks |-> TruckRows, bodies |-> BodyRows] : t, b \in BOOLEAN}

\* DBClient.get_truck_types and get_body_types: [] when the connection or the
\* query fails.
get_truck_types(catalog) == IF catalog.trucks_ok THEN catalog.trucks ELSE <<>>
get_body_types(catalog) == IF catalog.bodies_ok THEN catalog.bodies ELSE <<>>

\* What the body-type query of one extraction gives (<<>>: failure or no rows).
DbBodies == {<<>>, <<"Closed">>}

\* datetime.now() at an extraction.
Dates == {[y |-> 2024, m |-> 2, d |-> 28], [y |-> 2025, m |-> 12, d |-> 31]}

ApiKeys == {None, "sk-test"}

\* VehicleKeywordsOf without the defaults when DBClient() raises.
VehicleKeywordsNoFallback(catalog) ==
    IF catalog.ok THEN AddTrucks(default_vehicle_keywords, get_truck_types(catalog))
    ELSE <<>>

\* self.vehicle_keywords and self.body_types after the constructor.
VehicleKeywordsOf(catalog) ==
    IF catalog.ok THEN AddTrucks(default_vehicle_keywords, get_truck_types(catalog))
    ELSE default_vehicle_keywords
BodyTypesOf(catalog) ==
    IF catalog.ok THEN AddBodies(default_body_types, get_body_types(catalog))
    ELSE default_body_types

\* The scans of the texts above, as explicit tables.
Table(f) == f @@ <<>>
TextScans == Table([t \in Texts |-> ScanOf(t)])
BodyScans == Table([t \in Texts, db \in DbBodies |-> body_scan(lower(t), db)])
VehicleScans ==
    Table([t \in Texts, vk \in {VehicleKeywordsOf(c) : c \in Catalogs} |->
             explicit_scan(lower(t), vk)])

Scan(text) == TextScans[text]
BodyOf(text, db_bodies) == BodyScans[text, db_bodies]
ExplicitVehicleOf(text, keywords) == VehicleScans[text, keywords]

\* Stage 1 of the vehicle extractor, fuzzy n-gram matching: the loop records
\* best_score and best_match only; best_vehicle keeps its initial None.
FuzzyBestVehicle(text, keywords) == None

\* What _extract_booking_info, _extract_from_confirmation and
\* _detect_confirmation read from a text, under the keyword table of the
\* session and the body types the catalog returns at that moment.
Read(text, keywords, db_bodies) ==
    [text |-> text,
     scan |-> Scan(text),
     body |-> BodyOf(text, db_bodies),
     fuzzy |-> FuzzyBestVehicle(text, keywords),
     explicit |-> ExplicitVehicleOf(text, keywords)]

(***************************************************************************)
(* LLMAgent._extract_booking_info(text): the record after the extractors   *)
(* have run on the text, in the order of the source.                       *)
(***************************************************************************)
\* ExtractName without the guard on a filled customer_name.
ExtractNameOverwrites(bd, read) ==
    IF read.scan.name # None THEN [bd EXCEPT !.customer_name = read.scan.name] ELSE bd

ExtractName(bd, read) ==
    IF Truthy(bd.customer_name) THEN bd
    ELSE IF read.scan.name # None THEN [bd EXCEPT !.customer_name = read.scan.name]
    ELSE bd

ExtractPhone(bd, read) ==
    IF Truthy(bd.contact) THEN bd
    ELSE IF read.scan.phone # None THEN [bd EXCEPT !.contact = read.scan.phone]
    ELSE bd

\* len(value or "")
LenOr(v) == IF Truthy(v) THEN Len(v) ELSE 0

\* ExtractFromTo replacing a location by a capture of the same length too.
ExtractFromToNotShorter(bd, read) ==
    IF ~read.scan.from_to.ok THEN bd
    ELSE [bd EXCEPT
            !.pickup_location =
                IF ~Truthy(@) \/ Len(read.scan.from_to.pickup) >= LenOr(@)
                THEN read.scan.from_to.pickup ELSE @,
            !.drop_location =
                IF ~Truthy(@) \/ Len(read.scan.from_to.drop) >= LenOr(@)
                THEN read.scan.from_to.drop ELSE @]

\* Form (a): each location is replaced when empty or when the capture is longer.
ExtractFromTo(bd, read) ==
    IF ~read.scan.from_to.ok THEN bd
    ELSE [bd EXCEPT
            !.pickup_location =
                IF ~Truthy(@) \/ Len(read.scan.from_to.pickup) > LenOr(@)
                THEN read.scan.from_to.pickup ELSE @,
            !.drop_location =
                IF ~Truthy(@) \/ Len(read.scan.from_to.drop) > LenOr(@)
                THEN read.scan.from_to.drop ELSE @]

\* ExtractConfirmationEcho under the rule of form (a): a filled location is
\* replaced by a longer capture only.
ExtractConfirmationEchoIfLonger(bd, read) ==
    IF ~read.scan.echo.ok THEN bd
    ELSE [bd EXCEPT
            !.pickup_location =
                IF Len(read.scan.echo.pickup) > 2
                   /\ (~Truthy(@) \/ Len(read.scan.echo.pickup) > LenOr(@))
                THEN read.scan.echo.pickup ELSE @,
            !.drop_location =
                IF Len(read.scan.echo.drop) > 2
                   /\ (~Truthy(@) \/ Len(read.scan.echo.drop) > LenOr(@))
                THEN read.scan.echo.drop ELSE @]

\* Form (b): always replaces, when the capture has more than two characters.
ExtractConfirmationEcho(bd, read) ==
    IF ~read.scan.echo.ok THEN bd
    ELSE [bd EXCEPT
            !.pickup_location =
                IF Len(read.scan.echo.pickup) > 2 THEN read.scan.echo.pickup ELSE @,
            !.drop_location =
                IF Len(read.scan.echo.drop) > 2 THEN read.scan.echo.drop ELSE @]

ExtractBody(bd, read) ==
    IF bd.body_type # None THEN bd
    ELSE IF read.body # None THEN [bd EXCEPT !.body_type = read.body]
    ELSE bd

\* Stage 1: `if best_vehicle and best_score >= 85` never holds, best_vehicle
\* being None, and the stage stores nothing.
ExtractVehicleFuzzy(bd, read) ==
    IF Truthy(bd.vehicle_type) THEN bd
    ELSE IF Truthy(read.fuzzy) THEN [bd EXCEPT !.vehicle_type = read.fuzzy]
    ELSE bd

\* ExtractVehicleExplicit as a no-op on a filled vehicle_type.
ExtractVehicleExplicitGuarded(bd, read) ==
    IF Truthy(bd.vehicle_type) THEN bd
    ELSE IF Truthy(read.explicit) THEN [bd EXCEPT !.vehicle_type = read.explicit]
    ELSE bd

\* Stage 2, "truck [type] X": runs whatever vehicle_type holds.
ExtractVehicleExplicit(bd, read) ==
    IF Truthy(read.explicit) THEN [bd EXCEPT !.vehicle_type = read.explicit] ELSE bd

\* Stage 3, feet sizes and the generic "Truck".
ExtractVehicleFeet(bd, read) ==
    IF Truthy(bd.vehicle_type) THEN bd
    ELSE IF read.scan.feet # None THEN [bd EXCEPT !.vehicle_type = read.scan.feet]
    ELSE bd

\* ExtractGoods adding the material to a filled goods_type.
ExtractGoodsAppends(bd, read) ==
    IF read.scan.material = None THEN bd
    ELSE IF Truthy(bd.goods_type)
    THEN [bd EXCEPT !.goods_type = @ \o ", " \o read.scan.material]
    ELSE [bd EXCEPT !.goods_type = read.scan.material]

ExtractGoods(bd, read) ==
    IF Truthy(bd.goods_type) THEN bd
    ELSE IF read.scan.material # None THEN [bd EXCEPT !.goods_type = read.scan.material]
    ELSE bd

ExtractDate(bd, read, now) ==
    IF Truthy(bd.trip_date) THEN bd
    ELSE IF read.scan.days # -1
    THEN [bd EXCEPT !.trip_date = strftime(AddDays(now, read.scan.days))]
    ELSE bd

_extract_booking_info(bd, read, now) ==
    ExtractDate(
     ExtractGoods(
      ExtractVehicleFeet(
       ExtractVehicleExplicit(
        ExtractVehicleFuzzy(
         ExtractBody(
          ExtractConfirmationEcho(
           ExtractFromTo(
            ExtractPhone(
             ExtractName(bd, read), read), read), read), read), read), read), read), read),
     read, now)

\* The name block of _extract_from_confirmation.
ConfirmedName(bd, read) ==
    IF ~Truthy(bd.customer_name) /\ read.scan.conf_name # None
    THEN [bd EXCEPT !.customer_name = read.scan.conf_name]
    ELSE bd

\* The phone block of _extract_from_confirmation.
ConfirmedPhone(bd, read) ==
    IF ~Truthy(bd.contact) /\ read.scan.conf_phone # None
    THEN [bd EXCEPT !.contact = read.scan.conf_phone]
    ELSE bd

_extract_from_confirmation(bd, read) == ConfirmedPhone(ConfirmedName(bd, read), read)

\* The confirmation block of _detect_confirmation.
DetectConfirmed(bd, read) ==
    IF read.scan.confirms /\ bd.confirmation_status = "pending"
    THEN [bd EXCEPT !.confirmation_status = "confirmed"]
    ELSE bd

\* The rejection block of _detect_confirmation.
DetectRejected(bd, read) ==
    IF read.scan.rejects /\ bd.confirmation_status = "pending"
    THEN [bd EXCEPT !.confirmation_status = "not_interested"]
    ELSE bd

\* _detect_confirmation with the rejection check made on the status as it was
\* before the confirmation check.
DetectRejectionOverrides(bd, read) ==
    IF read.scan.rejects /\ bd.confirmation_status = "pending"
    THEN [bd EXCEPT !.confirmation_status = "not_interested"]
    ELSE DetectConfirmed(bd, read)

\* _detect_confirmation without the rejection check.
DetectConfirmationOnly(bd, read) == DetectConfirmed(bd, read)

_detect_confirmation(bd, read) == DetectRejected(DetectConfirmed(bd, read), read)

(***************************************************************************)
(* The agent.  generate_response is one step up to the call of the LLM     *)
(* and, when it makes the call, a second step at its return.               *)
(***************************************************************************)
VARIABLES
    api_key,                \* self.api_key
    conversation_history,   \* self.conversation_history: [role, content] records
    booking_data,           \* self.booking_data
    vehicle_keywords,       \* self.vehicle_keywords
    body_types,             \* self.body_types
    pc,                     \* "idle", or "calling" inside _call_openai
    user_text,              \* the argument of the last generate_response
    returned,               \* what the last generate_response returned
    db_catalog,             \* the catalog as the constructor found it
    sent,                   \* <<>>, or the last send_booking call as its one element
    recent_messages,        \* the messages of the last _call_openai, <<>> before the first
    recording_active,       \* ConversationRecorder.recording_active
    recording_paused,       \* ConversationRecorder.recording_paused
    user_audio_buffer,      \* ConversationRecorder.user_audio_buffer: the chunks in it
    lock,                   \* who holds ConversationRecorder.lock: "free", "capture", "main"
    user_segments,          \* the user_turn_<n>.wav files written, each the chunks in it
    current_turn,           \* ConversationRecorder.current_turn
    user_audio,             \* the chunks of user_input.wav, <<>> before it is written
    audio_data,             \* the b''.join(...) of the save under way on the main thread
    capture_pc,             \* where the capture thread is inside add_audio_chunk
    main_pc,                \* where the main thread is inside a recorder method
    chunks                  \* the chunks the microphone has delivered so far

vars == <<api_key, conversation_history, booking_data, vehicle_keywords, body_types,
          pc, user_text, returned, db_catalog, sent, recent_messages,
          recording_active, recording_paused, user_audio_buffer, lock, user_segments,
          current_turn, user_audio, audio_data, capture_pc, main_pc, chunks>>

\* The state of the ConversationRecorder and of the two threads that use it.
recorder == <<recording_active, recording_paused, user_audio_buffer, lock, user_segments,
              current_turn, user_audio, audio_data, capture_pc, main_pc, chunks>>

\* The state of the LLMAgent and of the API client.
agent == <<api_key, conversation_history, booking_data, vehicle_keywords, body_types,
           pc, user_text, returned, db_catalog, sent, recent_messages>>

\* ConversationRecorder.__init__
RecorderInit ==
    /\ recording_active = FALSE
    /\ recording_paused = FALSE
    /\ user_audio_buffer = <<>>
    /\ lock = "free"
    /\ user_segments = <<>>
    /\ current_turn = 0
    /\ user_audio = <<>>
    /\ audio_data = <<>>
    /\ capture_pc = "idle"
    /\ main_pc = "idle"
    /\ chunks = 0

\* The prompt's opening sentence stands for its text, which no operation reads.
SYSTEM_PROMPT == "You are DropTruck Sales Agent."

Message(role, content) == [role |-> role, content |-> content]

\* LLMAgent.__init__
Init ==
    \E key \in ApiKeys, found \in Catalogs :
        /\ api_key = key
        /\ db_catalog = found
        /\ sent = <<>>
        /\ recent_messages = <<>>
        /\ RecorderInit
        /\ conversation_history =
               IF Truthy(key) THEN <<Message("system", SYSTEM_PROMPT)>> ELSE <<>>
        /\ booking_data = BookingData
        /\ vehicle_keywords = VehicleKeywordsOf(found)
        /\ body_types = BodyTypesOf(found)
        /\ pc = "idle"
        /\ user_text = None
        /\ returned = None

\* The customer turns in the history.
UserTurns(history) == Cardinality({i \in 1..Len(history) : history[i].role = "user"})

\* GenerateResponseBlank starting the record afresh.
GenerateResponseBlankClears(text) ==
    /\ pc = "idle"
    /\ Scan(text).blank
    /\ user_text' = text
    /\ booking_data' = BookingData
    /\ returned' = "I didn't catch that. Could you please repeat?"
    /\ UNCHANGED <<recorder, recent_messages, db_catalog, sent, api_key, conversation_history, vehicle_keywords, body_types, pc>>

\* generate_response(user_text), blank utterance: the re-prompt, nothing else.
GenerateResponseBlank(text) ==
    /\ pc = "idle"
    /\ Scan(text).blank
    /\ user_text' = text
    /\ returned' = "I didn't catch that. Could you please repeat?"
    /\ UNCHANGED <<recorder, recent_messages, db_catalog, sent, api_key, conversation_history, booking_data, vehicle_keywords,
                   body_types, pc>>

\* The record after the two passes over the customer utterance.
AfterUtterance(bd, read, now) ==
    _detect_confirmation(_extract_booking_info(bd, read, now), read)

\* GenerateResponseEcho returning the utterance as it came.
GenerateResponseEchoVerbatim(text, now, db_bodies) ==
    /\ pc = "idle"
    /\ ~Scan(text).blank
    /\ ~Truthy(api_key)
    /\ user_text' = text
    /\ booking_data' =
           AfterUtterance(booking_data, Read(text, vehicle_keywords, db_bodies), now)
    /\ returned' = text
    /\ UNCHANGED <<recorder, recent_messages, db_catalog, sent, api_key, conversation_history, vehicle_keywords, body_types, pc>>

\* generate_response(user_text) without an API key: echo mode.
GenerateResponseEcho(text, now, db_bodies) ==
    /\ pc = "idle"
    /\ ~Scan(text).blank
    /\ ~Truthy(api_key)
    /\ user_text' = text
    /\ booking_data' =
           AfterUtterance(booking_data, Read(text, vehicle_keywords, db_bodies), now)
    /\ returned' = "[Echo Mode] You said: " \o text
    /\ UNCHANGED <<recorder, recent_messages, db_catalog, sent, api_key, conversation_history, vehicle_keywords, body_types, pc>>

\* The messages of the given role, or of every other role, in their order.
OfRole(history, role, same) ==
    LET keep(msg) == (msg.role = role) = same
        F[i \in 0..Len(history)] ==
            IF i = 0 THEN <<>>
            ELSE IF keep(history[i]) THEN Append(F[i - 1], history[i]) ELSE F[i - 1]
    IN  F[Len(history)]

\* other_messages[-(max_exchanges * 2):]
LastOf(messages, count) ==
    SubSeq(messages, Len(messages) - Min(Len(messages), count) + 1, Len(messages))

max_exchanges == 10

\* _get_recent_messages keeping max_exchanges messages, not twice as many.
GetRecentMessagesHalf(history) ==
    OfRole(history, "system", TRUE) \o LastOf(OfRole(history, "system", FALSE), max_exchanges)

\* _get_recent_messages(), called with the default max_exchanges.
_get_recent_messages(history) ==
    OfRole(history, "system", TRUE)
        \o LastOf(OfRole(history, "system", FALSE), max_exchanges * 2)

\* The last message of the role in the history, 0 when there is none.
LastOfRole(history, role) ==
    LET F[i \in 0..Len(history)] ==
            IF i = 0 THEN 0 ELSE IF history[i].role = role THEN i ELSE F[i - 1]
    IN  F[Len(history)]

\* is_call_complete judging by every assistant message, not the last one.
IsCallCompleteAnyTurn(history) ==
    \E i \in 1..Len(history) :
        /\ history[i].role = "assistant"
        /\ Truthy(history[i].content)
        /\ Scan(history[i].content).closes

\* is_call_complete(): the last assistant message, lower-cased, holds the marker
\* or a closing phrase.
is_call_complete(history) ==
    IF history = <<>>
    THEN FALSE
    ELSE IF LastOfRole(history, "assistant") = 0
         THEN FALSE
         ELSE IF ~Truthy(history[LastOfRole(history, "assistant")].content)
              THEN FALSE
              ELSE Scan(history[LastOfRole(history, "assistant")].content).closes

\* generate_response(user_text) with an API key, up to the call of the LLM.
GenerateResponseCall(text, now, db_bodies) ==
    /\ pc = "idle"
    /\ ~Scan(text).blank
    /\ Truthy(api_key)
    /\ user_text' = text
    /\ booking_data' =
           AfterUtterance(booking_data, Read(text, vehicle_keywords, db_bodies), now)
    /\ conversation_history' = Append(conversation_history, Message("user", text))
    /\ recent_messages' = _get_recent_messages(conversation_history')
    /\ pc' = "calling"
    /\ UNCHANGED <<recorder, db_catalog, sent, api_key, vehicle_keywords, body_types, returned>>

\* The record after the two extraction passes over the LLM's reply.
ResponseExtracted(bd, read, now) ==
    _extract_from_confirmation(_extract_booking_info(bd, read, now), read)

\* The marker check of generate_response.
Marked(bd, read) ==
    IF read.scan.marker
    THEN [bd EXCEPT !.confirmation_status = "confirmed"]
    ELSE bd

\* AfterResponse with the status reset when the reply has no marker.
AfterResponseResets(bd, read, now) ==
    [ResponseExtracted(bd, read, now) EXCEPT !.confirmation_status =
         IF read.scan.marker THEN "confirmed" ELSE "pending"]

\* AfterResponse with the marker honoured only while the status is pending.
AfterResponsePendingOnly(bd, read, now) ==
    IF bd.confirmation_status = "pending"
    THEN Marked(ResponseExtracted(bd, read, now), read)
    ELSE ResponseExtracted(bd, read, now)

\* AfterResponse with the keyword detection run on the reply as well.
AfterResponseDetects(bd, read, now) ==
    Marked(_detect_confirmation(ResponseExtracted(bd, read, now), read), read)

\* AfterResponse with the marker honoured only on a complete record.
AfterResponseIfComplete(bd, read, now) ==
    IF is_complete(ResponseExtracted(bd, read, now))
    THEN Marked(ResponseExtracted(bd, read, now), read)
    ELSE ResponseExtracted(bd, read, now)

\* The record after the passes over the LLM's reply.
AfterResponse(bd, read, now) == Marked(ResponseExtracted(bd, read, now), read)

\* _call_openai returns response_text; the rest of the try block.
CallOpenAIReturn(response_text, now, db_bodies) ==
    /\ pc = "calling"
    /\ booking_data' =
           AfterResponse(booking_data, Read(response_text, vehicle_keywords, db_bodies), now)
    /\ conversation_history' = Append(conversation_history, Message("assistant", response_text))
    /\ returned' = response_text
    /\ pc' = "idle"
    /\ UNCHANGED <<recorder, recent_messages, db_catalog, sent, api_key, vehicle_keywords, body_types, user_text>>

\* CallOpenAIFail undoing what the turn had stored.
CallOpenAIFailClears ==
    /\ pc = "calling"
    /\ booking_data' = BookingData
    /\ returned' = "I'm having trouble processing that right now. Could you try again?"
    /\ pc' = "idle"
    /\ UNCHANGED <<recorder, recent_messages, db_catalog, sent, api_key, conversation_history, vehicle_keywords, body_types, user_text>>

\* CallOpenAIFail taking the utterance out of the history again.
CallOpenAIFailRollsBack ==
    /\ pc = "calling"
    /\ conversation_history' = SubSeq(conversation_history, 1, Len(conversation_history) - 1)
    /\ returned' = "I'm having trouble processing that right now. Could you try again?"
    /\ pc' = "idle"
    /\ UNCHANGED <<recorder, recent_messages, db_catalog, sent, api_key, booking_data, vehicle_keywords, body_types, user_text>>

\* _call_openai raises: the except block.
CallOpenAIFail ==
    /\ pc = "calling"
    /\ returned' = "I'm having trouble processing that right now. Could you try again?"
    /\ pc' = "idle"
    /\ UNCHANGED <<recorder, recent_messages, db_catalog, sent, api_key, conversation_history, booking_data, vehicle_keywords,
                   body_types, user_text>>

Next ==
    \/ \E text \in UserTexts : GenerateResponseBlank(text)
    \/ \E text \in UserTexts, now \in Dates, db_bodies \in DbBodies :
           GenerateResponseEcho(text, now, db_bodies)
    \/ \E text \in UserTexts, now \in Dates, db_bodies \in DbBodies :
           /\ UserTurns(conversation_history) < MaxTurns
           /\ GenerateResponseCall(text, now, db_bodies)
    \/ \E response_text \in ResponseTexts, now \in Dates, db_bodies \in DbBodies :
           CallOpenAIReturn(response_text, now, db_bodies)
    \/ CallOpenAIFail

Spec == Init /\ [][Next]_vars

(***************************************************************************)
(* Long conversations: one customer utterance and two replies, repeated    *)
(* until the history is longer than the window handed to the LLM.          *)
(***************************************************************************)
MaxLongTurns == 11

LongDates == {now \in Dates : now.m = 2}

LongInit ==
    /\ Init
    /\ Truthy(api_key)
    /\ db_catalog = [ok |-> FALSE, trucks_ok |-> FALSE, bodies_ok |-> FALSE,
                     trucks |-> TruckRows, bodies |-> BodyRows]

LongNext ==
    \/ \E text \in LongUserTexts, now \in LongDates, db_bodies \in {<<>>} :
           /\ UserTurns(conversation_history) < MaxLongTurns
           /\ GenerateResponseCall(text, now, db_bodies)
    \/ \E response_text \in LongResponseTexts, now \in LongDates, db_bodies \in {<<>>} :
           CallOpenAIReturn(response_text, now, db_bodies)
    \/ CallOpenAIFail

LongSpec == LongInit /\ [][LongNext]_vars

(***************************************************************************)
(* The extractors on their own: the utterances of ExtractTexts, in echo    *)
(* mode or with the call to the LLM failing.                               *)
(***************************************************************************)
ExtractNext ==
    \/ \E text \in ExtractTexts, now \in Dates, db_bodies \in DbBodies :
           GenerateResponseEcho(text, now, db_bodies)
    \/ \E text \in ExtractTexts, now \in Dates, db_bodies \in DbBodies :
           /\ UserTurns(conversation_history) < MaxTurns
           /\ GenerateResponseCall(text, now, db_bodies)
    \/ CallOpenAIFail

ExtractSpec == Init /\ [][ExtractNext]_vars
(***************************************************************************)
(* DropTruckAPIClient.send_booking(booking_data).  One call is one step;   *)
(* sent records what the call put in the request, what came back, the      *)
(* message it printed and the value it returned.                           *)
(***************************************************************************)
\* BookingData.to_dict
to_dict(bd) == bd

\* dict.get(key, default)
Get(d, key, default) == IF key \in DOMAIN d THEN d[key] ELSE default

\* The dicts send_booking is called with.
Bookings ==
    {to_dict(BookingData),
     to_dict([BookingData EXCEPT
                 !.customer_name = "Ravi Kumar", !.contact = "9066542031",
                 !.pickup_location = "Chennai", !.drop_location = "Bangalore",
                 !.vehicle_type = "Tata Ace", !.body_type = "Open",
                 !.goods_type = "Cement", !.trip_date = "2024-02-29",
                 !.confirmation_status = "confirmed"]),
     [vehicle_type |-> "Truck", body_type |-> ""]}

\* What the catalog answers to the two id lookups: DBClient() raising (ok is
\* FALSE), or per lookup the id of the row, 0 included, or no row.
NoRow == [found |-> FALSE, id |-> 0]
Row(id) == [found |-> TRUE, id |-> id]
IdLookups ==
    {[ok |-> FALSE, truck |-> NoRow, body |-> NoRow]}
    \cup {[ok |-> TRUE, truck |-> t, body |-> b] :
            t \in {NoRow, Row(0), Row(7)}, b \in {NoRow, Row(4)}}

\* What requests.post does: raises ConnectionError, Timeout or another
\* exception, or returns a response with a status and a body that is JSON or
\* is not.
Raised(kind) == [kind |-> kind, status_code |-> 0, json |-> FALSE]
Response(status_code, json) == [kind |-> "response", status_code |-> status_code, json |-> json]
StatusCodes == {200, 201, 202, 204, 299, 301, 404, 500}
Replies ==
    {Raised("ConnectionError"), Raised("Timeout"), Raised("Exception")}
    \cup {Response(c, j) : c \in StatusCodes, j \in BOOLEAN}

\* truck_type_id and body_type_id: looked up only for a truthy field.
LookedUp(booking, field, lookups, row) ==
    IF lookups.ok /\ Truthy(Get(booking, field, None)) /\ row.found /\ row.id # 0
    THEN <<"id", row.id>>
    ELSE <<"text", Get(booking, field, "")>>

Payload(booking, lookups) ==
    [name |-> Get(booking, "customer_name", ""),
     contact |-> Get(booking, "contact", ""),
     pickup_location |-> Get(booking, "pickup_location", ""),
     drop_location |-> Get(booking, "drop_location", ""),
     truck_type |-> LookedUp(booking, "vehicle_type", lookups, lookups.truck),
     body_type |-> LookedUp(booking, "body_type", lookups, lookups.body),
     material |-> Get(booking, "goods_type", ""),
     required_date |-> Get(booking, "trip_date", "")]

\* Outcome with every status of the 2xx class accepted.
OutcomeAny2xx(reply) ==
    IF reply.kind = "ConnectionError"
    THEN [result |-> FALSE, printed |-> <<"Connection Error: Could not connect to", 0>>]
    ELSE IF reply.kind = "Timeout"
    THEN [result |-> FALSE, printed |-> <<"Timeout: API request took too long", 0>>]
    ELSE IF reply.kind = "Exception"
    THEN [result |-> FALSE, printed |-> <<"Error sending booking:", 0>>]
    ELSE IF reply.status_code \in 200..299
    THEN IF reply.json
         THEN [result |-> TRUE, printed |-> <<"Booking sent successfully!", 0>>]
         ELSE [result |-> FALSE, printed |-> <<"Error sending booking:", 0>>]
    ELSE [result |-> FALSE, printed |-> <<"API Error:", reply.status_code>>]

\* Outcome without the except clauses for ConnectionError and Timeout.
OutcomeGenericExcept(reply) ==
    IF reply.kind \in {"ConnectionError", "Timeout", "Exception"}
    THEN [result |-> FALSE, printed |-> <<"Error sending booking:", 0>>]
    ELSE IF reply.status_code \in {200, 201}
    THEN IF reply.json
         THEN [result |-> TRUE, printed |-> <<"Booking sent successfully!", 0>>]
         ELSE [result |-> FALSE, printed |-> <<"Error sending booking:", 0>>]
    ELSE [result |-> FALSE, printed |-> <<"API Error:", reply.status_code>>]

\* The value send_booking returns and the last message it prints (with the
\* status it prints, or 0): the except clauses, the status check, and
\* response.json() raising inside the try block on a body that is not JSON.
Outcome(reply) ==
    IF reply.kind = "ConnectionError"
    THEN [result |-> FALSE, printed |-> <<"Connection Error: Could not connect to", 0>>]
    ELSE IF reply.kind = "Timeout"
    THEN [result |-> FALSE, printed |-> <<"Timeout: API request took too long", 0>>]
    ELSE IF reply.kind = "Exception"
    THEN [result |-> FALSE, printed |-> <<"Error sending booking:", 0>>]
    ELSE IF reply.status_code \in {200, 201}
    THEN IF reply.json
         THEN [result |-> TRUE, printed |-> <<"Booking sent successfully!", 0>>]
         ELSE [result |-> FALSE, printed |-> <<"Error sending booking:", 0>>]
    ELSE [result |-> FALSE, printed |-> <<"API Error:", reply.status_code>>]

send_booking(booking, lookups, reply) ==
    /\ sent' = <<[payload |-> Payload(booking, lookups),
                  reply |-> reply,
                  printed |-> Outcome(reply).printed,
                  result |-> Outcome(reply).result]>>
    /\ UNCHANGED <<recorder, recent_messages, db_catalog, api_key, conversation_history, booking_data,
                   vehicle_keywords, body_types, pc, user_text, returned>>

ApiNext ==
    \E booking \in Bookings, lookups \in IdLookups, reply \in Replies :
        send_booking(booking, lookups, reply)

ApiSpec == Init /\ [][ApiNext]_vars

(***************************************************************************)
(* ConversationRecorder.  The capture thread runs add_audio_chunk, once    *)
(* per chunk the microphone delivers; the main thread runs the other       *)
(* methods, one at a time.  A step is one access to the shared state: a    *)
(* read of a flag, the acquisition of the lock, the statements under the   *)
(* lock with its release, a read or a change of the buffer.  Chunk n is    *)
(* the n-th the microphone delivered.                                      *)
(***************************************************************************)
MaxChunks == 2

\* add_audio_chunk(audio_data): `if self.recording_active`, read without the lock.
AddAudioChunkCall ==
    /\ capture_pc = "idle"
    /\ chunks < MaxChunks
    /\ chunks' = chunks + 1
    /\ capture_pc' = IF recording_active THEN "check_paused" ELSE "idle"
    /\ UNCHANGED <<agent, recording_active, recording_paused, user_audio_buffer, lock,
                   user_segments, current_turn, user_audio, audio_data, main_pc>>

\* `and not self.recording_paused`, read without the lock.
AddAudioChunkCheckPaused ==
    /\ capture_pc = "check_paused"
    /\ capture_pc' = IF recording_paused THEN "idle" ELSE "acquire"
    /\ UNCHANGED <<agent, recording_active, recording_paused, user_audio_buffer, lock,
                   user_segments, current_turn, user_audio, audio_data, main_pc, chunks>>

\* `with self.lock:`
AddAudioChunkAcquire ==
    /\ capture_pc = "acquire"
    /\ lock = "free"
    /\ lock' = "capture"
    /\ capture_pc' = "append"
    /\ UNCHANGED <<agent, recording_active, recording_paused, user_audio_buffer,
                   user_segments, current_turn, user_audio, audio_data, main_pc, chunks>>

\* self.user_audio_buffer.append(audio_data), and the lock is released.
AddAudioChunkAppend ==
    /\ capture_pc = "append"
    /\ user_audio_buffer' = Append(user_audio_buffer, chunks)
    /\ lock' = "free"
    /\ capture_pc' = "idle"
    /\ UNCHANGED <<agent, recording_active, recording_paused,
                   user_segments, current_turn, user_audio, audio_data, main_pc, chunks>>

\* The main thread enters the `with self.lock:` of a method.
MainAcquire(method) ==
    /\ main_pc = "idle"
    /\ lock = "free"
    /\ lock' = "main"
    /\ main_pc' = method
    /\ UNCHANGED <<agent, recording_active, recording_paused, user_audio_buffer,
                   user_segments, current_turn, user_audio, audio_data, capture_pc, chunks>>

\* start_recording(): under the lock.
StartRecording ==
    /\ main_pc = "start_recording"
    /\ recording_active' = TRUE
    /\ user_audio_buffer' = <<>>
    /\ lock' = "free"
    /\ main_pc' = "idle"
    /\ UNCHANGED <<agent, recording_paused, user_segments, current_turn, user_audio,
                   audio_data, capture_pc, chunks>>

\* stop_recording(): under the lock.
StopRecording ==
    /\ main_pc = "stop_recording"
    /\ recording_active' = FALSE
    /\ lock' = "free"
    /\ main_pc' = "stop_check"
    /\ UNCHANGED <<agent, recording_paused, user_audio_buffer, user_segments, current_turn,
                   user_audio, audio_data, capture_pc, chunks>>

\* stop_recording(): `if self.user_audio_buffer:`, after the lock is released.
StopRecordingCheck ==
    /\ main_pc = "stop_check"
    /\ main_pc' = IF user_audio_buffer # <<>> THEN "stop_save" ELSE "idle"
    /\ UNCHANGED <<agent, recording_active, recording_paused, user_audio_buffer, lock,
                   user_segments, current_turn, user_audio, audio_data, capture_pc, chunks>>

\* _save_user_audio(): the buffer, joined, is written to user_input.wav.
_save_user_audio ==
    /\ main_pc = "stop_save"
    /\ user_audio' = IF user_audio_buffer # <<>> THEN user_audio_buffer ELSE user_audio
    /\ main_pc' = "idle"
    /\ UNCHANGED <<agent, recording_active, recording_paused, user_audio_buffer, lock,
                   user_segments, current_turn, audio_data, capture_pc, chunks>>

\* pause_recording(): under the lock.
PauseRecording ==
    /\ main_pc = "pause_recording"
    /\ recording_paused' = TRUE
    /\ lock' = "free"
    /\ main_pc' = "idle"
    /\ UNCHANGED <<agent, recording_active, user_audio_buffer, user_segments, current_turn,
                   user_audio, audio_data, capture_pc, chunks>>

\* resume_recording(): under the lock.
ResumeRecording ==
    /\ main_pc = "resume_recording"
    /\ recording_paused' = FALSE
    /\ lock' = "free"
    /\ main_pc' = "idle"
    /\ UNCHANGED <<agent, recording_active, user_audio_buffer, user_segments, current_turn,
                   user_audio, audio_data, capture_pc, chunks>>

\* save_user_segment(): `if not self.user_audio_buffer: return None`; the
\* method takes no lock.
SaveUserSegmentCall ==
    /\ main_pc = "idle"
    /\ user_audio_buffer # <<>>
    /\ main_pc' = "save_join"
    /\ UNCHANGED <<agent, recording_active, recording_paused, user_audio_buffer, lock,
                   user_segments, current_turn, user_audio, audio_data, capture_pc, chunks>>

\* audio_data = b''.join(self.user_audio_buffer)
SaveUserSegmentJoin ==
    /\ main_pc = "save_join"
    /\ audio_data' = user_audio_buffer
    /\ main_pc' = "save_write"
    /\ UNCHANGED <<agent, recording_active, recording_paused, user_audio_buffer, lock,
                   user_segments, current_turn, user_audio, capture_pc, chunks>>

\* The segment file is written and its path appended to user_segments.
SaveUserSegmentWrite ==
    /\ main_pc = "save_write"
    /\ user_segments' = Append(user_segments, audio_data)
    /\ main_pc' = "save_clear"
    /\ UNCHANGED <<agent, recording_active, recording_paused, user_audio_buffer, lock,
                   current_turn, user_audio, audio_data, capture_pc, chunks>>

\* self.user_audio_buffer.clear()
SaveUserSegmentClear ==
    /\ main_pc = "save_clear"
    /\ user_audio_buffer' = <<>>
    /\ main_pc' = "save_turn"
    /\ UNCHANGED <<agent, recording_active, recording_paused, lock, user_segments,
                   current_turn, user_audio, audio_data, capture_pc, chunks>>

\* self.current_turn += 1; return segment_path
SaveUserSegmentReturn ==
    /\ main_pc = "save_turn"
    /\ current_turn' = current_turn + 1
    /\ audio_data' = <<>>
    /\ main_pc' = "idle"
    /\ UNCHANGED <<agent, recording_active, recording_paused, user_audio_buffer, lock,
                   user_segments, user_audio, capture_pc, chunks>>

RecorderNext ==
    \/ AddAudioChunkCall
    \/ AddAudioChunkCheckPaused
    \/ AddAudioChunkAcquire
    \/ AddAudioChunkAppend
    \/ \E method \in {"start_recording", "stop_recording", "pause_recording",
                      "resume_recording"} : MainAcquire(method)
    \/ StartRecording
    \/ StopRecording
    \/ StopRecordingCheck
    \/ _save_user_audio
    \/ PauseRecording
    \/ ResumeRecording
    \/ SaveUserSegmentCall
    \/ SaveUserSegmentJoin
    \/ SaveUserSegmentWrite
    \/ SaveUserSegmentClear
    \/ SaveUserSegmentReturn

\* One session: the recorder's threads do not touch the agent.
SessionInit ==
    /\ Init
    /\ ~Truthy(api_key)
    /\ db_catalog = [ok |-> FALSE, trucks_ok |-> FALSE, bodies_ok |-> FALSE,
                     trucks |-> TruckRows, bodies |-> BodyRows]

RecorderSpec == SessionInit /\ [][RecorderNext]_vars

(***************************************************************************)
(* The steps the claims speak of.                                          *)
(***************************************************************************)
status == booking_data.confirmation_status

\* A step of generate_response that runs the passes over a customer utterance
\* (user_text' is the utterance).
UtteranceStep == pc = "idle" /\ ~Scan(user_text').blank

\* The step that takes the LLM's reply (returned' is the reply).
ResponseStep ==
    /\ pc = "calling" /\ pc' = "idle"
    /\ Len(conversation_history') = Len(conversation_history) + 1

\* The first customer turn is in flight: the history is the system prompt and
\* the utterance.
FirstTurnInFlight ==
    pc = "calling" /\ Len(conversation_history) = 2 /\ user_text # None

(***************************************************************************)
(* C1, as stated: detection on an utterance with a confirmation and a      *)
(* rejection keyword, run while the status is pending, ends with the       *)
(* status not_interested.                                                  *)
(***************************************************************************)
C1_RejectionOverrides ==
    [][UtteranceStep /\ status = "pending"
       /\ Scan(user_text').confirms /\ Scan(user_text').rejects
       => status' = "not_interested"]_vars

(***************************************************************************)
(* C1, amended: detection on an utterance with a confirmation and a        *)
(* rejection keyword, run while the status is pending, ends with the       *)
(* status confirmed: the confirmation check takes the status out of        *)
(* pending and the rejection check acts on pending only.                   *)
(***************************************************************************)
C1_ConfirmationStands ==
    [][UtteranceStep /\ status = "pending"
       /\ Scan(user_text').confirms /\ Scan(user_text').rejects
       => status' = "confirmed"]_vars

\* The first utterance of a conversation had both keywords; the status is confirmed.
C1_Witness ==
    /\ FirstTurnInFlight
    /\ Scan(user_text).confirms /\ Scan(user_text).rejects
    /\ status = "confirmed"

(***************************************************************************)
(* C2: once the status has left pending, no step of generate_response      *)
(* makes it pending again.                                                 *)
(***************************************************************************)
C2_NeverPendingAgain ==
    [][status # "pending" => status' # "pending"]_vars

\* A reply without marker was taken after the first utterance had been
\* rejected: the status stays not_interested.
C2_Witness ==
    /\ pc = "idle" /\ Len(conversation_history) = 3
    /\ Scan(user_text).rejects /\ ~Scan(user_text).confirms
    /\ returned = conversation_history[3].content
    /\ ~check_booking_confirmed_marker(returned)
    /\ status = "not_interested"

(***************************************************************************)
(* C3: with the status pending, detection on an utterance with a           *)
(* confirmation keyword and no rejection keyword sets confirmed; with a    *)
(* rejection keyword and no confirmation keyword, not_interested; with     *)
(* neither, the status stays pending.                                      *)
(***************************************************************************)
C3_KeywordTransitions ==
    [][UtteranceStep /\ status = "pending"
       => /\ Scan(user_text').confirms /\ ~Scan(user_text').rejects => status' = "confirmed"
          /\ Scan(user_text').rejects /\ ~Scan(user_text').confirms => status' = "not_interested"
          /\ ~Scan(user_text').confirms /\ ~Scan(user_text').rejects => status' = "pending"]_vars

\* The first utterance had a rejection keyword only; the status is not_interested.
C3_Witness ==
    /\ FirstTurnInFlight
    /\ Scan(user_text).rejects /\ ~Scan(user_text).confirms
    /\ status = "not_interested"

(***************************************************************************)
(* C4: when the reply the generator returns has the marker                 *)
(* BOOKING_CONFIRMED, the status is confirmed after the turn, whatever it  *)
(* was before.                                                             *)
(***************************************************************************)
C4_MarkerConfirms ==
    [][ResponseStep /\ check_booking_confirmed_marker(returned')
       => status' = "confirmed"]_vars

\* The first utterance was a rejection (status not_interested) and the reply
\* to it had the marker: the status is confirmed.
C4_Witness ==
    /\ pc = "idle" /\ Len(conversation_history) = 3
    /\ Scan(user_text).rejects /\ ~Scan(user_text).confirms
    /\ returned = conversation_history[3].content
    /\ check_booking_confirmed_marker(returned)
    /\ status = "confirmed"

\* The reply of the first turn has been taken: the history is the system
\* prompt, the utterance and the reply.
FirstReplyTaken ==
    /\ pc = "idle" /\ Len(conversation_history) = 3
    /\ returned = conversation_history[3].content

(***************************************************************************)
(* C5, as stated: a reply with a confirmation or rejection keyword, taken  *)
(* while the status is pending, changes the status as detection on a       *)
(* customer utterance of the same text would.                              *)
(***************************************************************************)
C5_DetectionOnReply ==
    [][ResponseStep /\ status = "pending"
       /\ (Scan(returned').confirms \/ Scan(returned').rejects)
       => status' = _detect_confirmation(booking_data, [scan |-> Scan(returned')])
                      .confirmation_status]_vars

(***************************************************************************)
(* C5, amended: the field extractors run on the customer utterance and on  *)
(* the reply (an empty goods_type takes the material either text names,    *)
(* and a location echo in either text replaces the pickup), while keyword  *)
(* detection runs on the customer utterance only: a keyword in an          *)
(* utterance takes the status out of pending, and a reply without the      *)
(* marker leaves the status as it was, keyword or not.                     *)
(***************************************************************************)
C5_DetectionOnUtteranceOnly ==
    [][/\ UtteranceStep \/ ResponseStep
          => LET t == IF pc = "idle" THEN user_text' ELSE returned'
             IN  /\ ~Truthy(booking_data.goods_type) /\ Scan(t).material # None
                    => booking_data'.goods_type = Scan(t).material
                 /\ Scan(t).echo.ok /\ Len(Scan(t).echo.pickup) > 2
                    => booking_data'.pickup_location = Scan(t).echo.pickup
       /\ UtteranceStep /\ status = "pending"
          /\ (Scan(user_text').confirms \/ Scan(user_text').rejects)
          => status' # "pending"
       /\ ResponseStep /\ ~check_booking_confirmed_marker(returned')
          => status' = status]_vars

\* A reply with a confirmation keyword and a material was taken while the
\* status was pending: the material is stored and the status is still pending.
C5_Witness ==
    /\ FirstReplyTaken
    /\ Scan(returned).confirms /\ ~check_booking_confirmed_marker(returned)
    /\ Scan(user_text).material = None /\ Scan(returned).material # None
    /\ booking_data.goods_type = Scan(returned).material
    /\ status = "pending"

(***************************************************************************)
(* C6, as stated: in every turn in which the marker in the reply sets the  *)
(* status to confirmed, is_complete() is true at that moment.              *)
(***************************************************************************)
C6_MarkerOnlyWhenComplete ==
    [][ResponseStep /\ check_booking_confirmed_marker(returned')
       /\ status' = "confirmed"
       => is_complete(booking_data')]_vars

(***************************************************************************)
(* C6, amended: the marker sets the status to confirmed whether or not the *)
(* record is complete: in every turn in which the reply has the marker     *)
(* while is_complete() is false, the status is confirmed all the same.     *)
(***************************************************************************)
C6_MarkerWhenIncomplete ==
    [][ResponseStep /\ check_booking_confirmed_marker(returned')
       /\ ~is_complete(booking_data')
       => status' = "confirmed"]_vars

\* The reply to an utterance without a confirmation keyword had the marker:
\* the status is confirmed on an incomplete record.
C6_Witness ==
    /\ FirstReplyTaken
    /\ check_booking_confirmed_marker(returned)
    /\ ~Scan(user_text).confirms /\ ~Scan(user_text).rejects
    /\ status = "confirmed"
    /\ ~is_complete(booking_data)

(***************************************************************************)
(* C7: is_complete() and is_booking_complete() are true exactly when       *)
(* pickup_location, drop_location, vehicle_type, body_type, goods_type and *)
(* trip_date are all non-empty, and their value does not depend on         *)
(* customer_name, contact, lead_source or confirmation_status.             *)
(***************************************************************************)
RequiredFields ==
    {"pickup_location", "drop_location", "vehicle_type",
     "body_type", "goods_type", "trip_date"}

OtherFields == {"customer_name", "contact", "lead_source", "confirmation_status"}

OtherValues == {None, "", "Ravi Kumar", "9066542031", "pending", "confirmed"}

C7_CompleteIffSixFields ==
    /\ is_complete(booking_data)
       <=> \A f \in RequiredFields : booking_data[f] \notin {None, ""}
    /\ is_booking_complete(booking_data) <=> is_complete(booking_data)
    /\ \A f \in OtherFields, v \in OtherValues :
          /\ is_complete([booking_data EXCEPT ![f] = v]) <=> is_complete(booking_data)
          /\ is_booking_complete([booking_data EXCEPT ![f] = v])
             <=> is_booking_complete(booking_data)

\* A complete record without customer_name and contact.
C7_Witness ==
    /\ is_complete(booking_data)
    /\ is_booking_complete(booking_data)
    /\ booking_data.customer_name = None
    /\ booking_data.contact = None

(***************************************************************************)
(* C8: once customer_name, contact, body_type, goods_type or trip_date is  *)
(* non-empty, no later generate_response call changes its value, be it by  *)
(* extraction from the customer utterance, from the reply or from the      *)
(* reply's confirmation echo.                                              *)
(***************************************************************************)
WriteOnceFields == {"customer_name", "contact", "body_type", "goods_type", "trip_date"}

C8_WriteOnce ==
    [][\A f \in WriteOnceFields :
          booking_data[f] \notin {None, ""} => booking_data'[f] = booking_data[f]]_vars

\* The reply echoed another name, number and material than the customer had
\* given: the record keeps the customer's.
C8_Witness ==
    /\ FirstReplyTaken
    /\ Scan(user_text).name # None /\ Scan(user_text).phone # None
    /\ Scan(returned).conf_name \notin {None, Scan(user_text).name}
    /\ Scan(returned).conf_phone \notin {None, Scan(user_text).phone}
    /\ booking_data.customer_name = Scan(user_text).name
    /\ booking_data.contact = Scan(user_text).phone

(***************************************************************************)
(* C9, as stated: once vehicle_type is non-empty, processing a later       *)
(* utterance or reply leaves it unchanged, one with the phrase             *)
(* "truck [type] X" included.                                              *)
(***************************************************************************)
C9_VehicleWriteOnce ==
    [][booking_data.vehicle_type \notin {None, ""}
       => booking_data'.vehicle_type = booking_data.vehicle_type]_vars

(***************************************************************************)
(* C9, amended: the explicit "truck [type] X" stage is the exception.  A   *)
(* text whose X scores 65 or more against a vehicle keyword sets           *)
(* vehicle_type to that keyword's label, filled or not, and the feet and   *)
(* generic "Truck" stage is not applied after it; every other text leaves  *)
(* a filled vehicle_type unchanged.                                        *)
(***************************************************************************)
C9_ExplicitStageOverwrites ==
    [][UtteranceStep \/ ResponseStep
       => LET t == IF pc = "idle" THEN user_text' ELSE returned'
              explicit == ExplicitVehicleOf(t, vehicle_keywords)
          IN  /\ explicit # None => booking_data'.vehicle_type = explicit
              /\ explicit = None /\ booking_data.vehicle_type \notin {None, ""}
                 => booking_data'.vehicle_type = booking_data.vehicle_type]_vars

\* The customer asked for "a truck" (the generic label) and the reply named
\* a truck type in the explicit phrase: vehicle_type is the named type,
\* although the reply has the word "truck" too.
C9_Witness ==
    /\ FirstReplyTaken
    /\ Scan(user_text).feet = "Truck"
    /\ ExplicitVehicleOf(user_text, vehicle_keywords) = None
    /\ ExplicitVehicleOf(returned, vehicle_keywords) \notin {None, "Truck"}
    /\ booking_data.vehicle_type = ExplicitVehicleOf(returned, vehicle_keywords)

(***************************************************************************)
(* C10: when a text matches the form "from X to Y" and not the echo form,  *)
(* pickup_location becomes the captured pickup exactly when it was empty   *)
(* or the capture is strictly longer than the stored value, and is         *)
(* unchanged otherwise; drop_location likewise, independently.             *)
(***************************************************************************)
C10_LongerCaptureReplaces ==
    [][UtteranceStep \/ ResponseStep
       => LET t == IF pc = "idle" THEN user_text' ELSE returned'
              m == Scan(t).from_to
              pickup == booking_data.pickup_location
              drop == booking_data.drop_location
          IN  m.ok /\ ~Scan(t).echo.ok
              => /\ booking_data'.pickup_location =
                       IF pickup \in {None, ""} \/ Len(m.pickup) > Len(pickup)
                       THEN m.pickup ELSE pickup
                 /\ booking_data'.drop_location =
                       IF drop \in {None, ""} \/ Len(m.drop) > Len(drop)
                       THEN m.drop ELSE drop]_vars

\* The utterance named a pickup as long as the stored one and a longer drop:
\* the stored pickup is kept and the drop replaced.
C10_Witness ==
    /\ user_text # None /\ Scan(user_text).from_to.ok /\ ~Scan(user_text).echo.ok
    /\ returned = "[Echo Mode] You said: " \o user_text
    /\ booking_data.pickup_location \notin {None, Scan(user_text).from_to.pickup}
    /\ Len(booking_data.pickup_location) = Len(Scan(user_text).from_to.pickup)
    /\ booking_data.drop_location = Scan(user_text).from_to.drop

\* The text a step of generate_response runs the extractors on.
StepText == IF pc = "idle" THEN user_text' ELSE returned'

C12_Idempotent ==
    \A text \in Texts, now \in Dates, db_bodies \in DbBodies :
        LET read == Read(text, vehicle_keywords, db_bodies)
            once == AfterUtterance(booking_data, read, now)
        IN  ~Scan(text).blank => AfterUtterance(once, read, now) = once

\* Echo mode has processed an utterance that names locations into a record
\* holding other locations, and the record is what processing the utterance
\* once more gives.
C12_Witness ==
    /\ user_text # None /\ returned = "[Echo Mode] You said: " \o user_text
    /\ Scan(user_text).from_to.ok
    /\ booking_data.pickup_location # Scan(user_text).from_to.pickup
    /\ booking_data.pickup_location # None
    /\ status # "pending"
    /\ \E now \in Dates, db_bodies \in DbBodies :
          booking_data =
              AfterUtterance(booking_data, Read(user_text, vehicle_keywords, db_bodies), now)

(***************************************************************************)
(* C13: generate_response on an empty or whitespace-only utterance returns *)
(* the re-prompt and changes nothing: the record, the history and the      *)
(* keyword tables are unchanged and the response generator is not called.  *)
(***************************************************************************)
C13_BlankChangesNothing ==
    [][pc = "idle" /\ Scan(user_text').blank
       => /\ returned' = "I didn't catch that. Could you please repeat?"
          /\ pc' = "idle"
          /\ UNCHANGED <<booking_data, conversation_history, vehicle_keywords,
                         body_types>>]_vars

\* A whitespace-only utterance was answered by the re-prompt while the record
\* held a name and the status was confirmed.
C13_Witness ==
    /\ user_text = "   "
    /\ returned = "I didn't catch that. Could you please repeat?"
    /\ booking_data.customer_name # None
    /\ status = "confirmed"

\* The step of generate_response in echo mode (user_text' is the utterance).
EchoStep == pc = "idle" /\ ~Scan(user_text').blank /\ ~Truthy(api_key)

\* The step of generate_response up to the call of the LLM.
CallStep == pc = "idle" /\ pc' = "calling"

\* The step in which the call of the LLM fails.
FailStep ==
    /\ pc = "calling" /\ pc' = "idle"
    /\ Len(conversation_history') = Len(conversation_history)

\* The record of the next state is the record after extraction and
\* confirmation detection on the utterance.
UtteranceProcessed ==
    \E now \in Dates, db_bodies \in DbBodies :
        booking_data' =
            AfterUtterance(booking_data, Read(user_text', vehicle_keywords, db_bodies), now)

(***************************************************************************)
(* C14, as stated: without an API key, and when the call of the response   *)
(* generator fails, generate_response returns the customer's utterance     *)
(* verbatim.                                                               *)
(***************************************************************************)
C14_ReturnsUtteranceVerbatim ==
    [][EchoStep \/ FailStep => returned' = user_text']_vars

(***************************************************************************)
(* C14, amended: when the response generator is unavailable,               *)
(* generate_response runs extraction and confirmation detection on the     *)
(* utterance and then returns, without an API key, the utterance prefixed  *)
(* by "[Echo Mode] You said: ", and, when the call fails, the fixed        *)
(* message "I'm having trouble processing that right now. Could you try    *)
(* again?".                                                                *)
(***************************************************************************)
C14_DegradedResponses ==
    [][/\ EchoStep
          => /\ UtteranceProcessed
             /\ returned' = "[Echo Mode] You said: " \o user_text'
       /\ CallStep => UtteranceProcessed
       /\ FailStep
          => /\ user_text' = user_text
             /\ returned' = "I'm having trouble processing that right now. Could you try again?"]_vars

\* Echo mode answered an utterance that gives a name, and the record has the name.
C14_Witness ==
    /\ ~Truthy(api_key) /\ user_text # None
    /\ returned = "[Echo Mode] You said: " \o user_text
    /\ returned # user_text
    /\ Scan(user_text).name # None
    /\ booking_data.customer_name = Scan(user_text).name

(***************************************************************************)
(* C15: when the call of the response generator fails, the record after    *)
(* generate_response returns is the record as it stood after extraction    *)
(* and confirmation detection on the customer utterance: the failed call   *)
(* changes no field and not the status.                                    *)
(***************************************************************************)
C15_FailedCallLeavesRecord ==
    [][FailStep => booking_data' = booking_data]_vars

\* The call of the first turn failed: the record is what the utterance alone
\* gives, a confirmed status included.
C15_Witness ==
    /\ pc = "idle" /\ Len(conversation_history) = 2
    /\ returned = "I'm having trouble processing that right now. Could you try again?"
    /\ Scan(user_text).confirms /\ status = "confirmed"
    /\ \E now \in Dates, db_bodies \in DbBodies :
          booking_data =
              AfterUtterance(BookingData, Read(user_text, vehicle_keywords, db_bodies), now)

\* The aliases of a keyword table, and the name an alias maps to.
Aliases(table) == {table[k][1] : k \in 1..Len(table)}
NameOfAlias(table, alias) == table[CHOOSE k \in 1..Len(table) : table[k][1] = alias][2]

\* The default tables with the rows of the catalog added.
ExtendedVehicleKeywords == AddTrucks(default_vehicle_keywords, TruckRows)
ExtendedBodyTypes == AddBodies(default_body_types, BodyRows)

(***************************************************************************)
(* C16, as stated: if the construction of the catalog client or either     *)
(* list query fails, both keyword tables equal the default tables.         *)
(***************************************************************************)
C16_DefaultsOnAnyFailure ==
    ~db_catalog.ok \/ ~db_catalog.trucks_ok \/ ~db_catalog.bodies_ok
    => /\ vehicle_keywords = default_vehicle_keywords
       /\ body_types = default_body_types

(***************************************************************************)
(* C16, amended: if the catalog fails during session construction, the     *)
(* construction still completes; when the construction of the catalog      *)
(* client fails, both keyword tables equal the default tables, and when a  *)
(* list query fails, the table of that query equals its default table,     *)
(* while the table of a query that succeeds is extended by its rows.       *)
(***************************************************************************)
C16_DefaultsPerFailedQuery ==
    /\ ~db_catalog.ok
       => /\ vehicle_keywords = default_vehicle_keywords
          /\ body_types = default_body_types
    /\ db_catalog.ok
       => /\ vehicle_keywords =
                IF db_catalog.trucks_ok THEN ExtendedVehicleKeywords
                ELSE default_vehicle_keywords
          /\ body_types =
                IF db_catalog.bodies_ok THEN ExtendedBodyTypes
                ELSE default_body_types

\* The body-type query failed and the truck query did not: the session has
\* served a turn with the default body types and an extended vehicle table.
C16_Witness ==
    /\ db_catalog.ok /\ db_catalog.trucks_ok /\ ~db_catalog.bodies_ok
    /\ body_types = default_body_types
    /\ vehicle_keywords # default_vehicle_keywords
    /\ user_text # None

(***************************************************************************)
(* C17, as stated: after construction with a catalog that returns entries, *)
(* both tables contain every default alias, and for every catalog name its *)
(* lower-cased form and its lower-cased form with spaces for hyphens are   *)
(* aliases that map to the name.                                           *)
(***************************************************************************)
C17_BothAliasesInBothTables ==
    db_catalog.ok /\ db_catalog.trucks_ok /\ db_catalog.bodies_ok
    => /\ Aliases(default_vehicle_keywords) \subseteq Aliases(vehicle_keywords)
       /\ Aliases(default_body_types) \subseteq Aliases(body_types)
       /\ \A k \in 1..Len(db_catalog.trucks) :
             \A alias \in {lower(db_catalog.trucks[k]),
                           replace(lower(db_catalog.trucks[k]), "-", " ")} :
                /\ alias \in Aliases(vehicle_keywords)
                /\ NameOfAlias(vehicle_keywords, alias) = db_catalog.trucks[k]
       /\ \A k \in 1..Len(db_catalog.bodies) :
             \A alias \in {lower(db_catalog.bodies[k]),
                           replace(lower(db_catalog.bodies[k]), "-", " ")} :
                /\ alias \in Aliases(body_types)
                /\ NameOfAlias(body_types, alias) = db_catalog.bodies[k]

(***************************************************************************)
(* C17, amended: after construction with a catalog that returns entries,   *)
(* both tables still contain every default alias, and for every catalog    *)
(* name its lower-cased form is an alias that maps to the name; for a      *)
(* catalog truck name the lower-cased form with spaces for hyphens is such *)
(* an alias too, while the body-type table gets no alias with spaces for   *)
(* hyphens; on an alias collision the catalog entry wins.                  *)
(***************************************************************************)
C17_HyphenAliasForTrucksOnly ==
    db_catalog.ok /\ db_catalog.trucks_ok /\ db_catalog.bodies_ok
    => /\ Aliases(default_vehicle_keywords) \subseteq Aliases(vehicle_keywords)
       /\ Aliases(default_body_types) \subseteq Aliases(body_types)
       /\ \A k \in 1..Len(db_catalog.trucks) :
             \A alias \in {lower(db_catalog.trucks[k]),
                           replace(lower(db_catalog.trucks[k]), "-", " ")} :
                /\ alias \in Aliases(vehicle_keywords)
                /\ NameOfAlias(vehicle_keywords, alias) = db_catalog.trucks[k]
       /\ \A k \in 1..Len(db_catalog.bodies) :
             /\ lower(db_catalog.bodies[k]) \in Aliases(body_types)
             /\ NameOfAlias(body_types, lower(db_catalog.bodies[k])) = db_catalog.bodies[k]
       /\ Aliases(body_types) =
             Aliases(default_body_types)
             \cup {lower(db_catalog.bodies[k]) : k \in 1..Len(db_catalog.bodies)}

\* Both queries gave rows, one of them under a default alias in either table
\* and a body name with a hyphen: the catalog's names stand under the default
\* aliases, and the body name has no alias with a space.
C17_Witness ==
    /\ db_catalog.ok /\ db_catalog.trucks_ok /\ db_catalog.bodies_ok
    /\ NameOfAlias(default_vehicle_keywords, "eicher") = "Eicher"
    /\ NameOfAlias(vehicle_keywords, "eicher") = "EICHER"
    /\ NameOfAlias(vehicle_keywords, "mini truck") = "Mini-Truck"
    /\ NameOfAlias(body_types, "open") = "OPEN"
    /\ "semi-closed" \in Aliases(body_types)
    /\ "semi closed" \notin Aliases(body_types)

\* The last call of send_booking, when there has been one.
Sent == sent[1]

(***************************************************************************)
(* C18, as stated: send_booking returns True for every response whose      *)
(* status is in the 2xx class and False for every other response.          *)
(***************************************************************************)
C18_TrueIffAny2xx ==
    sent # <<>> /\ Sent.reply.kind = "response"
    => (Sent.result <=> Sent.reply.status_code \in 200..299)

(***************************************************************************)
(* C18, amended: send_booking returns True for every response whose status *)
(* is 200 or 201 and whose body is JSON, and False for every other         *)
(* response, the other statuses of the 2xx class included.                 *)
(***************************************************************************)
C18_TrueIff200Or201 ==
    sent # <<>> /\ Sent.reply.kind = "response"
    => (Sent.result <=> Sent.reply.status_code \in {200, 201} /\ Sent.reply.json)

\* A response with status 204 came back and send_booking returned False.
C18_Witness ==
    /\ sent # <<>> /\ Sent.reply.kind = "response"
    /\ Sent.reply.status_code = 204
    /\ Sent.result = FALSE

\* What made a call of send_booking fail, or "success".
Cause(call) ==
    IF call.reply.kind = "ConnectionError" THEN "connection failure"
    ELSE IF call.reply.kind = "Timeout" THEN "timeout"
    ELSE IF call.reply.kind = "response" /\ call.reply.status_code \notin 200..299
    THEN "application error"
    ELSE IF call.reply.kind = "response" /\ call.result THEN "success"
    ELSE "other"

Causes == {"connection failure", "timeout", "application error", "success"}

(***************************************************************************)
(* C19, as stated: two calls of send_booking that differ in their cause    *)
(* among connection failure, timeout, non-2xx application error and        *)
(* success return different values.                                        *)
(***************************************************************************)
C19_CausesReturnDifferently ==
    [][/\ sent # <<>> /\ sent' # <<>>
       /\ Cause(Sent) \in Causes /\ Cause(sent'[1]) \in Causes
       /\ Cause(Sent) # Cause(sent'[1])
       => Sent.result # sent'[1].result]_vars

(***************************************************************************)
(* C19, amended: send_booking returns the same value, False, for a         *)
(* connection failure, a timeout and a non-2xx application error, which is *)
(* different from the True of a success; the three causes differ in the    *)
(* message printed only.                                                   *)
(***************************************************************************)
C19_CausesDifferInMessageOnly ==
    [][/\ sent # <<>> /\ sent' # <<>>
       /\ Cause(Sent) \in Causes /\ Cause(sent'[1]) \in Causes
       /\ Cause(Sent) # Cause(sent'[1])
       => /\ Sent.result = (Cause(Sent) = "success")
          /\ sent'[1].result = (Cause(sent'[1]) = "success")
          /\ Sent.printed[1] # sent'[1].printed[1]]_vars

\* A call that timed out returned False and printed the timeout message.
C19_Witness ==
    /\ sent # <<>> /\ Cause(Sent) = "timeout"
    /\ Sent.result = FALSE
    /\ Sent.printed[1] = "Timeout: API request took too long"

\* The positions of the system turns of a history.
SystemTurns(history) == {i \in 1..Len(history) : history[i].role = "system"}

(***************************************************************************)
(* C20, as stated: in every reachable state, with or without an API key,   *)
(* the history has exactly one system turn, and it is the first turn.      *)
(***************************************************************************)
C20_OneSystemTurn == SystemTurns(conversation_history) = {1}

\* With an API key the history starts with its one system turn; without a key
\* it is empty.
HistoryShape ==
    IF Truthy(api_key)
    THEN /\ SystemTurns(conversation_history) = {1}
         /\ conversation_history[1] = Message("system", SYSTEM_PROMPT)
    ELSE conversation_history = <<>>

(***************************************************************************)
(* C20, amended: in every reachable state of a session with an API key,    *)
(* after any number of turns, failed ones included, the history has        *)
(* exactly one system turn, and it is the first turn; the history of a     *)
(* session without an API key has no turn at all; no operation removes,    *)
(* duplicates or modifies a turn once appended.                            *)
(***************************************************************************)
C20_SystemTurnWithKeyOnly ==
    /\ HistoryShape
    /\ [][/\ HistoryShape'
          /\ Len(conversation_history') >= Len(conversation_history)
          /\ SubSeq(conversation_history', 1, Len(conversation_history))
                = conversation_history]_vars

\* The call of the first turn failed: the history is the system turn and the
\* utterance.
C20_Witness ==
    /\ pc = "idle" /\ Len(conversation_history) = 2
    /\ returned = "I'm having trouble processing that right now. Could you try again?"
    /\ conversation_history[1].role = "system"
    /\ conversation_history[2] = Message("user", user_text)


(***************************************************************************)
(* C21, as stated: the window handed to the response generator is the      *)
(* system turn followed by at most 2 * max_exchanges other turns that form *)
(* whole user-then-assistant pairs, except for the pending user turn at    *)
(* its end.                                                                *)
(***************************************************************************)
C21_WindowOfWholePairs ==
    pc = "calling" =>
        LET others == Len(recent_messages) - 1
        IN  /\ recent_messages[1].role = "system"
            /\ others <= 2 * max_exchanges
            /\ others % 2 = 1
            /\ \A i \in 1..others :
                   recent_messages[1 + i].role =
                       IF i % 2 = 1 THEN "user" ELSE "assistant"

(***************************************************************************)
(* C21, amended: the window handed to the response generator is the system *)
(* turn followed by the last 2 * max_exchanges other turns of the history  *)
(* (all of them when there are fewer) in their order, the pending user     *)
(* turn at its end.                                                        *)
(***************************************************************************)
C21_WindowOfLastTurns ==
    pc = "calling" =>
        LET others == Len(recent_messages) - 1
            skipped == Len(conversation_history) - Len(recent_messages)
        IN  /\ recent_messages[1] = Message("system", SYSTEM_PROMPT)
            /\ others = Min(Len(conversation_history) - 1, 2 * max_exchanges)
            /\ \A i \in 1..others :
                   /\ recent_messages[1 + i] = conversation_history[1 + skipped + i]
                   /\ recent_messages[1 + i].role # "system"
            /\ recent_messages[1 + others] = Message("user", user_text)

\* A call is under way on a history too long for the window, which opens with
\* the assistant turn of an exchange whose user turn it has dropped.
C21_Witness ==
    /\ pc = "calling"
    /\ Len(conversation_history) > 1 + 2 * max_exchanges
    /\ Len(recent_messages) = 1 + 2 * max_exchanges
    /\ recent_messages[2].role = "assistant"
    /\ conversation_history[2] = Message("user", user_text)


\* The texts that hold the submission marker or a closing phrase.
ClosingTexts ==
    {"Your booking is confirmed. BOOKING_CONFIRMED", "Thank you, Goodbye!"}

ClaimedDays ==
    LET Of(t) ==
            IF Contains(t, "today") \/ Contains(t, "now") THEN -1
            ELSE IF Contains(t, "day after tomorrow") \/ Contains(t, "overmorrow") THEN 2
            ELSE IF Contains(t, "tomorrow") THEN 1
            ELSE -1
    IN  Table([text \in ExtractTexts |-> Of(lower(text))])

\* A step of generate_response on an utterance of ExtractTexts.
ExtractStep == UtteranceStep /\ user_text' \in ExtractTexts

(***************************************************************************)
(* C23, as stated: with trip_date empty, an utterance with "day after      *)
(* tomorrow" or "overmorrow" (and neither "today" nor "now") sets          *)
(* trip_date to the current date plus 2 days, and one with "tomorrow" but  *)
(* not "day after tomorrow" to the current date plus 1 day.                *)
(***************************************************************************)
C23_RelativeDaysAdded ==
    [][ExtractStep /\ ~Truthy(booking_data.trip_date) /\ ClaimedDays[user_text'] # -1
       => \E now \in Dates :
              booking_data'.trip_date = strftime(AddDays(now, ClaimedDays[user_text']))]_vars

\* The digits of a text, in their order.
DigitsOf(text) ==
    Concat([i \in 1..Len(text) |-> IF Char(text, i) \in Digits THEN Char(text, i) ELSE ""])

\* The utterances of ExtractTexts whose digits are one 10-digit number that
\* begins with 6 to 9, written in one piece or in groups with spaces or dashes
\* between them, with the number each holds.
Numerals ==
    LET held == {text \in ExtractTexts :
                    /\ Len(DigitsOf(text)) = 10
                    /\ Char(DigitsOf(text), 1) \in Mobile
                    /\ words_to_digits(text) = ""}
    IN  Table([text \in held |-> DigitsOf(text)])

(***************************************************************************)
(* C24, as stated: with contact empty, a 10-digit number beginning with 6, *)
(* 7, 8 or 9 that the utterance holds in one piece or with spaces or       *)
(* dashes between its digit groups (and no spoken digit words) becomes the *)
(* contact, separators removed.                                            *)
(***************************************************************************)
C24_SeparatedNumberStored ==
    [][ExtractStep /\ ~Truthy(booking_data.contact) /\ user_text' \in DOMAIN Numerals
       => booking_data'.contact = Numerals[user_text']]_vars

\* The word n-grams (1 to 4 words) of a lower-cased text.
NGrams(text_lower) ==
    {join(SubSeq(split(text_lower), r[1], r[2])) :
             r \in {span \in (1..Len(split(text_lower))) \X (1..Len(split(text_lower))) :
                        span[1] <= span[2] /\ span[2] - span[1] < 4}}

\* The utterances of ExtractTexts with an n-gram that is itself a default
\* vehicle keyword (which scores 100 against it, the most the metric gives),
\* all such keywords of the utterance standing for one label: that label.
FuzzyLabels ==
    LET among(grams) ==
            {default_vehicle_keywords[k][2] :
                 k \in {n \in 1..Len(default_vehicle_keywords) :
                            default_vehicle_keywords[n][1] \in grams}}
        labels == Table([text \in ExtractTexts |-> among(NGrams(lower(text)))])
        hit == {text \in ExtractTexts : Cardinality(labels[text]) = 1}
    IN  Table([text \in hit |-> CHOOSE label \in labels[text] : TRUE])

(***************************************************************************)
(* C25, as stated: with vehicle_type empty, when an n-gram of the          *)
(* utterance scores at least 85 against a vehicle keyword, the fuzzy stage *)
(* sets vehicle_type to the label of the highest-scoring keyword, and the  *)
(* later stages do not decide the value.                                   *)
(***************************************************************************)
C25_FuzzyStageDecides ==
    [][ExtractStep /\ ~Truthy(booking_data.vehicle_type)
            /\ user_text' \in DOMAIN FuzzyLabels
       => booking_data'.vehicle_type = FuzzyLabels[user_text']]_vars

\* The body type each utterance of ExtractTexts names under each table a
\* session can hold: the first keyword of the table that the utterance
\* contains, or None.
SessionBodies ==
    Table([text \in ExtractTexts, table \in {BodyTypesOf(c) : c \in Catalogs} |->
             FirstKeyword(table, lower(text))])

(***************************************************************************)
(* C26, as stated: processing an utterance queries no catalog; with        *)
(* body_type empty, the body type stored is the one the utterance names    *)
(* under the session's table built at construction (the defaults with the  *)
(* catalog's entries appended, first match in insertion order).            *)
(***************************************************************************)
C26_SessionTableDecides ==
    [][ExtractStep /\ booking_data.body_type = None
       => booking_data'.body_type = SessionBodies[user_text', body_types]]_vars


\* A step that appends a chunk to the buffer.
AppendStep == Len(user_audio_buffer') > Len(user_audio_buffer)

(***************************************************************************)
(* C27, as stated: under every interleaving of add_audio_chunk with        *)
(* start_recording, stop_recording, pause_recording and resume_recording,  *)
(* a chunk is appended to the buffer only while capture is active and not  *)
(* paused: none is appended once pause_recording or stop_recording has     *)
(* returned, until resume_recording or start_recording is called.          *)
(***************************************************************************)
C27_AppendOnlyWhileCapturing ==
    [][AppendStep /\ main_pc = "idle"
       => recording_active /\ ~recording_paused]_vars

\* The segments that hold the chunk.
SegmentsWith(segments, chunk) ==
    {k \in 1..Len(segments) : \E i \in 1..Len(segments[k]) : segments[k][i] = chunk}

(***************************************************************************)
(* C28, as stated: under every interleaving of add_audio_chunk with        *)
(* save_user_segment, every chunk appended to the buffer is written to     *)
(* exactly one saved user segment; the buffer clear of save_user_segment   *)
(* drops no chunk that no segment holds.                                   *)
(***************************************************************************)
C28_ClearDropsNoUnsavedChunk ==
    [][main_pc = "save_clear" /\ main_pc' = "save_turn"
       => \A i \in 1..Len(user_audio_buffer) :
              Cardinality(SegmentsWith(user_segments', user_audio_buffer[i])) = 1]_vars

=============================================================================
